---- MODULE Spec2Model ----
(***************************************************************************)
(* Model of prepify-graph: the relationship graph (backend/graph_builder), *)
(* its path queries, and the request handlers of backend/app that filter   *)
(* paths and reload the graph.                                             *)
(*                                                                         *)
(* The graph is the networkx Graph held by GraphBuilder: a node dictionary *)
(* (identifier -> attribute dictionary) and an adjacency dictionary        *)
(* (identifier -> neighbour -> edge attribute dictionary, written in both  *)
(* directions by add_edge).  Python dictionaries are functions over        *)
(* strings.  The iteration order of a dictionary is not part of the state: *)
(* it only decides which of several equally short paths is returned.       *)
(***************************************************************************)
EXTENDS Integers, Sequences, FiniteSets, TLC

VARIABLES
  graph,    \* GraphBuilder.graph: [node, adj]
  resp,     \* the call being answered: its operation, arguments and result
  cleared,  \* whether nothing was inserted since the last clear(), and the
            \* identifiers that clear() dropped
  reload    \* the position of the reload handler and what the queries saw

vars == <<graph, resp, cleared, reload>>

(***************************************************************************)
(* Bounds and input sets.                                                  *)
(***************************************************************************)
Ids == {"A", "B", "C", "D"}

SmallIds == {"A", "B", "C"}

MaxK == 3

MaxWaypoints == 3

MaxFilterK == 2

MaxFilterWaypoints == 2

\* The nesting the interpreter allows the decoder before RecursionError.
MaxNesting == 8

MaxLen == 4

MaxItems == 2

MaxRows == 3

MaxLimit == 2

MaxDepth == 2

EmptyDict == [x \in {} |-> TRUE]

DictGet(d, key, default) == IF key \in DOMAIN d THEN d[key] ELSE default

\* dict.update(other): the keys of other overwrite, the others are kept.
DictUpdate(d, other) ==
  [key \in DOMAIN d \cup DOMAIN other |->
     IF key \in DOMAIN other THEN other[key] ELSE d[key]]

(***************************************************************************)
(* The entity dictionaries and relationship arguments the loaders pass.    *)
(***************************************************************************)
PlainData == [name |-> "ABC s.r.o.", type |-> "company"]

InsolventData == [name |-> "XYZ a.s.", type |-> "company", insolvent |-> TRUE]

ForeignData == [name |-> "Jan", type |-> "person", country |-> "DE"]

NoMetadata == [given |-> FALSE, dict |-> EmptyDict]

Metadata(d) == [given |-> TRUE, dict |-> d]

InactiveMetadata == Metadata([active |-> FALSE])

(***************************************************************************)
(* GraphBuilder: construction and mutation.                                *)
(***************************************************************************)
EmptyGraph == [node |-> EmptyDict, adj |-> EmptyDict]

\* networkx Graph.add_node: a new node gets an empty adjacency; the attributes
\* are written over those the node already has.
nx_add_node(g, n, attrs) ==
  IF n \in DOMAIN g.node
  THEN [g EXCEPT !.node[n] = DictUpdate(@, attrs)]
  ELSE [node |-> [m \in DOMAIN g.node \cup {n} |->
                    IF m = n THEN attrs ELSE g.node[m]],
        adj |-> [m \in DOMAIN g.adj \cup {n} |->
                    IF m = n THEN EmptyDict ELSE g.adj[m]]]

\* networkx Graph.add_edge: both endpoints are created when missing, with no
\* attributes; the attributes update the edge's dictionary, which is stored
\* under adj[u][v] and adj[v][u].
nx_add_edge(g, u, v, attrs) ==
  LET g1 == IF u \in DOMAIN g.node THEN g ELSE nx_add_node(g, u, EmptyDict)
      g2 == IF v \in DOMAIN g1.node THEN g1 ELSE nx_add_node(g1, v, EmptyDict)
      datadict == DictUpdate(DictGet(g2.adj[u], v, EmptyDict), attrs)
      g3 == [g2 EXCEPT !.adj[u] = DictUpdate(@, [w \in {v} |-> datadict])]
  IN  [g3 EXCEPT !.adj[v] = DictUpdate(@, [w \in {u} |-> datadict])]

\* Graph.remove_node: the node, its adjacency and every entry naming it.
nx_remove_node(g, n) ==
  [node |-> [m \in DOMAIN g.node \ {n} |-> g.node[m]],
   adj  |-> [m \in DOMAIN g.adj \ {n} |->
               [w \in DOMAIN g.adj[m] \ {n} |-> g.adj[m][w]]]]

add_entity_replace(g, entity_id, entity_data) ==
  nx_add_node(nx_remove_node(g, entity_id), entity_id,
    [name      |-> DictGet(entity_data, "name", ""),
     type      |-> DictGet(entity_data, "type", "unknown"),
     city      |-> DictGet(entity_data, "city", ""),
     country   |-> DictGet(entity_data, "country", "CZ"),
     insolvent |-> DictGet(entity_data, "insolvent", FALSE),
     data      |-> entity_data])

add_entity(g, entity_id, entity_data) ==
  nx_add_node(g, entity_id,
    [name      |-> DictGet(entity_data, "name", ""),
     type      |-> DictGet(entity_data, "type", "unknown"),
     city      |-> DictGet(entity_data, "city", ""),
     country   |-> DictGet(entity_data, "country", "CZ"),
     insolvent |-> DictGet(entity_data, "insolvent", FALSE),
     data      |-> entity_data])

add_relationship_keep_first(g, entity1_id, entity2_id, relationship_type, metadata) ==
  LET md == IF metadata.given THEN metadata.dict ELSE EmptyDict
  IN  IF entity1_id \in DOMAIN g.adj /\ entity2_id \in DOMAIN g.adj[entity1_id]
      THEN g
      ELSE nx_add_edge(g, entity1_id, entity2_id,
             [type     |-> relationship_type,
              active   |-> DictGet(md, "active", TRUE),
              metadata |-> md])

add_relationship(g, entity1_id, entity2_id, relationship_type, metadata) ==
  LET md == IF metadata.given THEN metadata.dict ELSE EmptyDict
  IN  nx_add_edge(g, entity1_id, entity2_id,
        [type     |-> relationship_type,
         active   |-> DictGet(md, "active", TRUE),
         metadata |-> md])

clear_edges_only(g) ==
  [node |-> g.node, adj |-> [n \in DOMAIN g.node |-> EmptyDict]]

clear(g) == EmptyGraph

\* The node dictionary export_subgraph emits: the attributes as a reader
\* sees them, each with the default it falls back to.
export_node(g, node_id, path) ==
  LET node_data == g.node[node_id]
  IN  [id        |-> node_id,
       label     |-> DictGet(node_data, "name", node_id),
       type      |-> DictGet(node_data, "type", "unknown"),
       in_path   |-> node_id \in path,
       insolvent |-> DictGet(node_data, "insolvent", FALSE),
       country   |-> DictGet(node_data, "country", "CZ"),
       city      |-> DictGet(node_data, "city", "")]

\* Read accessors of the graph, as the queries and handlers use them.
has_entity(g, n) == n \in DOMAIN g.node

neighbors(g, n) == DOMAIN g.adj[n]

has_edge(g, u, v) == u \in DOMAIN g.adj /\ v \in DOMAIN g.adj[u]

\* Graph.number_of_edges: half the degree sum, a self-loop counting twice.
number_of_edges(g) ==
  Cardinality({e \in SUBSET DOMAIN g.node :
                 /\ Cardinality(e) \in {1, 2}
                 /\ \E u \in e, v \in e : e = {u, v} /\ v \in DOMAIN g.adj[u]})

(***************************************************************************)
(* Path queries.  networkx raises NodeNotFound for a missing endpoint and  *)
(* NetworkXNoPath for a disconnected pair; a library result is the record  *)
(* [exc, val] with exc = "" when a value is returned.                      *)
(***************************************************************************)
Returned(v) == [exc |-> "", val |-> v]

Raised(e) == [exc |-> e, val |-> <<>>]

\* A method's result: kind is "value", "none" (Python None) or "raise".
Value(v) == [kind |-> "value", exc |-> "", val |-> v]

None == [kind |-> "none", exc |-> "", val |-> <<>>]

Raise(e) == [kind |-> "raise", exc |-> e, val |-> <<>>]

\* The neighbours of v that a search may step to: ignored nodes and ignored
\* edges (in either direction) are filtered out of the adjacency.
nx_filtered_adj(g, v, ignore_nodes, ignore_edges) ==
  {w \in DOMAIN g.adj[v] : w \notin ignore_nodes /\ {v, w} \notin ignore_edges}

\* Breadth-first distances to the nodes of fringe (all at distance d), level
\* by level: dist maps every node discovered so far to its distance.
RECURSIVE nx_bfs(_, _, _, _, _, _)
nx_bfs(g, fringe, dist, d, ignore_nodes, ignore_edges) ==
  IF fringe = {} THEN dist
  ELSE LET next == {w \in DOMAIN g.node \ DOMAIN dist :
                      \E v \in fringe :
                        w \in nx_filtered_adj(g, v, ignore_nodes, ignore_edges)}
       IN  nx_bfs(g, next,
                  [n \in DOMAIN dist \cup next |->
                     IF n \in DOMAIN dist THEN dist[n] ELSE d + 1],
                  d + 1, ignore_nodes, ignore_edges)

\* The path read off the search: from v, step to a neighbour one level
\* closer to the target until the target is reached.
RECURSIVE nx_build_path(_, _, _, _, _)
nx_build_path(g, dist, v, ignore_nodes, ignore_edges) ==
  IF dist[v] = 0 THEN <<v>>
  ELSE LET w == CHOOSE x \in nx_filtered_adj(g, v, ignore_nodes, ignore_edges) :
                  x \in DOMAIN dist /\ dist[x] = dist[v] - 1
       IN  <<v>> \o nx_build_path(g, dist, w, ignore_nodes, ignore_edges)

\* The unweighted shortest path search of networkx, with the ignore sets the
\* ranked search passes (both empty for nx.shortest_path).
nx_bidirectional_shortest_path(g, source, target, ignore_nodes, ignore_edges) ==
  IF source \notin DOMAIN g.node \/ target \notin DOMAIN g.node
  THEN Raised("NodeNotFound")
  ELSE IF source \in ignore_nodes \/ target \in ignore_nodes
  THEN Raised("NetworkXNoPath")
  ELSE LET dist == nx_bfs(g, {target}, [n \in {target} |-> 0], 0,
                          ignore_nodes, ignore_edges)
       IN  IF source \in DOMAIN dist
           THEN Returned(nx_build_path(g, dist, source, ignore_nodes, ignore_edges))
           ELSE Raised("NetworkXNoPath")

nx_shortest_path(g, source, target) ==
  nx_bidirectional_shortest_path(g, source, target, {}, {})

find_shortest_path_uncaught(g, source_id, target_id) ==
  LET r == nx_shortest_path(g, source_id, target_id)
  IN  IF r.exc = "" THEN Value(r.val)
      ELSE IF r.exc = "NetworkXNoPath" THEN None
      ELSE Raise(r.exc)

find_shortest_path(g, source_id, target_id) ==
  LET r == nx_shortest_path(g, source_id, target_id)
  IN  IF r.exc = "" THEN Value(r.val)
      ELSE IF r.exc = "NetworkXNoPath" THEN None
      ELSE IF r.exc = "NodeNotFound" THEN None
      ELSE Raise(r.exc)

(***************************************************************************)
(* nx.shortest_simple_paths: the ranked loopless search (Yen) over the     *)
(* unweighted graph.  listA holds the paths produced so far, listB the     *)
(* candidate buffer: <<cost, path>> entries in push order, a path being    *)
(* pushed only when the buffer does not hold it already, and the popped    *)
(* entry being the earliest one of least cost.                             *)
(***************************************************************************)
nx_buffer_push(listB, cost, path) ==
  IF \E j \in 1..Len(listB) : listB[j][2] = path THEN listB
  ELSE Append(listB, <<cost, path>>)

nx_buffer_min(listB) ==
  CHOOSE j \in 1..Len(listB) :
    /\ \A m \in 1..Len(listB) : listB[j][1] <= listB[m][1]
    /\ \A m \in 1..(j - 1) : listB[m][1] > listB[j][1]

nx_buffer_remove(listB, j) ==
  SubSeq(listB, 1, j - 1) \o SubSeq(listB, j + 1, Len(listB))

\* The spur loop over the prefixes (roots) of the previous path: i runs over
\* 1..len(prev_path)-1, the ignore sets accumulating from one root to the next.
RECURSIVE nx_spur_paths(_, _, _, _, _, _, _, _)
nx_spur_paths(g, target, listA, listB, prev_path, i, ignore_nodes, ignore_edges) ==
  IF i >= Len(prev_path) THEN listB
  ELSE LET root == SubSeq(prev_path, 1, i)
           ignored == ignore_edges \cup
                      {{listA[j][i], listA[j][i + 1]} :
                         j \in {m \in 1..Len(listA) :
                                  /\ Len(listA[m]) > i
                                  /\ SubSeq(listA[m], 1, i) = root}}
           spur == nx_bidirectional_shortest_path(g, root[i], target,
                                                  ignore_nodes, ignored)
           pushed == IF spur.exc = ""
                     THEN nx_buffer_push(listB, Len(root) + Len(spur.val),
                                         SubSeq(root, 1, i - 1) \o spur.val)
                     ELSE listB
       IN  nx_spur_paths(g, target, listA, pushed, prev_path, i + 1,
                         ignore_nodes \cup {root[i]}, ignored)

\* One turn of the generator's loop after the first: push the spur paths of
\* prev_path, then pop the next path, or stop when the buffer is empty.
RECURSIVE nx_yen(_, _, _, _, _)
nx_yen(g, target, listA, listB, prev_path) ==
  LET buffer == nx_spur_paths(g, target, listA, listB, prev_path, 1, {}, {})
  IN  IF buffer = <<>> THEN listA
      ELSE LET j == nx_buffer_min(buffer)
               path == buffer[j][2]
           IN  nx_yen(g, target, Append(listA, path),
                      nx_buffer_remove(buffer, j), path)

\* list(nx.shortest_simple_paths(G, source, target)): every path the
\* generator yields, or the exception its first step raises.
nx_shortest_simple_paths(g, source, target) ==
  IF source \notin DOMAIN g.node \/ target \notin DOMAIN g.node
  THEN Raised("NodeNotFound")
  ELSE LET first == nx_bidirectional_shortest_path(g, source, target, {}, {})
       IN  IF first.exc /= "" THEN Raised(first.exc)
           ELSE Returned(nx_yen(g, target, <<first.val>>, <<>>, first.val))

\* Python's paths[:k]: the first k items for k >= 0, all but the last -k
\* items for k < 0.
py_slice_to(seq, k) ==
  IF k >= 0 THEN SubSeq(seq, 1, IF k < Len(seq) THEN k ELSE Len(seq))
  ELSE SubSeq(seq, 1, IF Len(seq) + k > 0 THEN Len(seq) + k ELSE 0)

find_top_k_paths_one_more(g, source_id, target_id, k) ==
  LET r == nx_shortest_simple_paths(g, source_id, target_id)
  IN  IF r.exc = "" THEN Value(py_slice_to(r.val, k + 1))
      ELSE IF r.exc \in {"NetworkXNoPath", "NodeNotFound"} THEN Value(<<>>)
      ELSE Raise(r.exc)

find_top_k_paths(g, source_id, target_id, k) ==
  LET r == nx_shortest_simple_paths(g, source_id, target_id)
  IN  IF r.exc = "" THEN Value(py_slice_to(r.val, k))
      ELSE IF r.exc = "NetworkXNoPath" THEN Value(<<>>)
      ELSE IF r.exc = "NodeNotFound" THEN Value(<<>>)
      ELSE Raise(r.exc)

RECURSIVE multi_point_loop_keep_junction(_, _, _, _)
RECURSIVE multi_point_loop_partial(_, _, _, _)
multi_point_loop_keep_junction(g, waypoints, i, combined_path) ==
  IF i >= Len(waypoints) - 1 THEN Value(combined_path)
  ELSE LET segment == nx_shortest_path(g, waypoints[i + 1], waypoints[i + 2])
       IN  IF segment.exc /= "" THEN None
           ELSE multi_point_loop_keep_junction(g, waypoints, i + 1,
                  combined_path \o segment.val)

multi_point_loop_partial(g, waypoints, i, combined_path) ==
  IF i >= Len(waypoints) - 1 THEN Value(combined_path)
  ELSE LET segment == nx_shortest_path(g, waypoints[i + 1], waypoints[i + 2])
       IN  IF segment.exc /= ""
           THEN IF combined_path = <<>> THEN None ELSE Value(combined_path)
           ELSE multi_point_loop_partial(g, waypoints, i + 1,
                  IF i = 0 THEN combined_path \o segment.val
                  ELSE combined_path \o Tail(segment.val))

\* The loop of find_multi_point_path over the consecutive waypoint pairs,
\* i counting from 0 as in the code; a failing leg ends it with None.
RECURSIVE multi_point_loop(_, _, _, _)
multi_point_loop(g, waypoints, i, combined_path) ==
  IF i >= Len(waypoints) - 1 THEN Value(combined_path)
  ELSE LET segment == nx_shortest_path(g, waypoints[i + 1], waypoints[i + 2])
       IN  IF segment.exc = "NetworkXNoPath" THEN None
           ELSE IF segment.exc = "NodeNotFound" THEN None
           ELSE IF segment.exc /= "" THEN Raise(segment.exc)
           ELSE multi_point_loop(g, waypoints, i + 1,
                  IF i = 0 THEN combined_path \o segment.val
                  ELSE combined_path \o Tail(segment.val))

find_multi_point_path(g, waypoints) ==
  IF Len(waypoints) < 2 THEN None
  ELSE multi_point_loop(g, waypoints, 0, <<>>)

(***************************************************************************)
(* Statistics.  nx.is_connected walks the graph breadth-first from one     *)
(* node (which one makes no difference in an undirected graph) and         *)
(* compares the number of nodes met with the number of nodes; it raises on *)
(* the null graph, which get_graph_stats answers itself.                   *)
(***************************************************************************)
number_of_nodes(g) == Cardinality(DOMAIN g.node)

nx_is_connected(g) ==
  LET start == CHOOSE n \in DOMAIN g.node : TRUE
      seen  == nx_bfs(g, {start}, [n \in {start} |-> 0], 0, {}, {})
  IN  Cardinality(DOMAIN seen) = number_of_nodes(g)

get_graph_stats_null_connected(g) ==
  [total_nodes  |-> number_of_nodes(g),
   total_edges  |-> number_of_edges(g),
   is_connected |-> IF number_of_nodes(g) > 0 THEN nx_is_connected(g) ELSE TRUE]

get_graph_stats(g) ==
  [total_nodes  |-> number_of_nodes(g),
   total_edges  |-> number_of_edges(g),
   is_connected |-> IF number_of_nodes(g) > 0 THEN nx_is_connected(g) ELSE FALSE]

(***************************************************************************)
(* Neighbourhood export (export_subgraph).  The subgraph is a view of the  *)
(* graph; the library promises no order for the nodes of the view (it      *)
(* walks either the set of kept identifiers or the graph, whichever is     *)
(* shorter), so the order is an input: order lists the identifiers as the  *)
(* view yields them.  An edge is reported once, from the endpoint the view *)
(* yields first.                                                           *)
(***************************************************************************)
\* set(path)
py_set(seq) == {seq[i] : i \in 1..Len(seq)}

\* The level-by-level walk of single_source_shortest_path_length with the
\* cutoff ignored.
RECURSIVE nx_single_shortest_path_length_no_cutoff(_, _, _, _, _)
nx_single_shortest_path_length_no_cutoff(g, nextlevel, seen, level, cutoff) ==
  IF nextlevel = {} THEN seen
  ELSE LET found == {w \in DOMAIN g.node \ DOMAIN seen :
                       \E v \in nextlevel : w \in DOMAIN g.adj[v]}
       IN  nx_single_shortest_path_length_no_cutoff(g, found,
             [n \in DOMAIN seen \cup found |->
                IF n \in DOMAIN seen THEN seen[n] ELSE level + 1],
             level + 1, cutoff)

\* The level-by-level walk of single_source_shortest_path_length: seen maps
\* every node met so far to its distance; the walk stops at the cutoff.
RECURSIVE nx_single_shortest_path_length(_, _, _, _, _)
nx_single_shortest_path_length(g, nextlevel, seen, level, cutoff) ==
  IF nextlevel = {} \/ ~(cutoff > level) THEN seen
  ELSE LET found == {w \in DOMAIN g.node \ DOMAIN seen :
                       \E v \in nextlevel : w \in DOMAIN g.adj[v]}
       IN  nx_single_shortest_path_length(g, found,
             [n \in DOMAIN seen \cup found |->
                IF n \in DOMAIN seen THEN seen[n] ELSE level + 1],
             level + 1, cutoff)

nx_single_source_shortest_path_length(g, source, cutoff) ==
  IF source \notin DOMAIN g.node THEN Raised("NodeNotFound")
  ELSE Returned(nx_single_shortest_path_length(g, {source}, [n \in {source} |-> 0],
                                               0, cutoff))

\* The loop over path that fills nodes_to_include.
RECURSIVE export_nodes_to_include(_, _, _, _, _)
export_nodes_to_include(g, path, i, depth, nodes_to_include) ==
  IF i > Len(path) THEN Returned(nodes_to_include)
  ELSE LET found == nx_single_source_shortest_path_length(g, path[i], depth)
       IN  IF found.exc /= "" THEN found
           ELSE export_nodes_to_include(g, path, i + 1, depth,
                                        nodes_to_include \cup DOMAIN found.val)

\* The edge dictionary export_subgraph emits.
export_edge(g, u, v, path) ==
  LET edge_data == g.adj[u][v]
  IN  [source  |-> u,
       target  |-> v,
       type    |-> DictGet(edge_data, "type", "unknown"),
       active  |-> DictGet(edge_data, "active", TRUE),
       in_path |-> u \in path /\ v \in path]

\* subgraph.edges(): for each node sub[i] of the view in turn, its
\* neighbours in the view that were not walked before it.
RECURSIVE export_edges(_, _, _, _, _)
export_edges(g, sub, i, j, path) ==
  IF i > Len(sub) THEN <<>>
  ELSE IF j > Len(sub) THEN export_edges(g, sub, i + 1, i + 1, path)
  ELSE (IF sub[j] \in DOMAIN g.adj[sub[i]]
        THEN <<export_edge(g, sub[i], sub[j], path)>> ELSE <<>>)
       \o export_edges(g, sub, i, j + 1, path)

export_subgraph(g, path, depth, order) ==
  LET included == export_nodes_to_include(g, path, 1, depth, py_set(path))
  IN  IF included.exc /= "" THEN Raise(included.exc)
      ELSE LET sub == SelectSeq(order, LAMBDA n : n \in included.val
                                                   /\ n \in DOMAIN g.node)
           IN  Value([nodes |-> [i \in 1..Len(sub) |->
                                   export_node(g, sub[i], py_set(path))],
                      edges |-> export_edges(g, sub, 1, 1, py_set(path))])

(***************************************************************************)
(* The request handlers of app.py that search, then filter.  A response is *)
(* [status, found, message, paths]; a message stands for the text the      *)
(* handler formats, the identifiers left out.                              *)
(***************************************************************************)
MsgRequired == "Both 'source' and 'target' are required"

MsgNoPaths == "No paths found between"

MsgNoMatch == "No paths found matching your filter criteria"

MsgWaypoints == "At least 2 waypoints are required"

MsgNoMultiPath == "No path found through all waypoints"

MsgFilteredOut == "Path found but filtered out by your criteria"

BadRequest(msg) == [status |-> 400, found |-> FALSE, message |-> msg, paths |-> <<>>]

NotFound(msg) == [status |-> 200, found |-> FALSE, message |-> msg, paths |-> <<>>]

Found(paths) == [status |-> 200, found |-> TRUE, message |-> "", paths |-> paths]

path_nodes_valid_insolvent_only(g, path, i, exclude_insolvent, exclude_foreign) ==
  \A j \in i..Len(path) :
     ~(exclude_insolvent /\ DictGet(g.node[path[j]], "insolvent", FALSE))

\* The node loop of the filter: the first insolvent or foreign node the
\* active flags exclude ends it with path_valid False.
RECURSIVE path_nodes_valid(_, _, _, _, _)
path_nodes_valid(g, path, i, exclude_insolvent, exclude_foreign) ==
  IF i > Len(path) THEN TRUE
  ELSE LET node_data == g.node[path[i]]
       IN  IF exclude_insolvent /\ DictGet(node_data, "insolvent", FALSE)
           THEN FALSE
           ELSE IF exclude_foreign /\ DictGet(node_data, "country", "CZ") /= "CZ"
           THEN FALSE
           ELSE path_nodes_valid(g, path, i + 1, exclude_insolvent, exclude_foreign)

\* The edge loop of the filter, i counting from 0 as in the code.
RECURSIVE path_edges_valid(_, _, _)
path_edges_valid(g, path, i) ==
  IF i >= Len(path) - 1 THEN TRUE
  ELSE LET edge_data == g.adj[path[i + 1]][path[i + 2]]
       IN  IF ~DictGet(edge_data, "active", TRUE) THEN FALSE
           ELSE path_edges_valid(g, path, i + 1)

path_valid(g, path, data) ==
  LET nodes_ok == path_nodes_valid(g, path, 1, data.exclude_insolvent,
                                   data.exclude_foreign)
  IN  IF nodes_ok /\ data.exclude_inactive
      THEN path_edges_valid(g, path, 0)
      ELSE nodes_ok

RECURSIVE filter_paths(_, _, _, _)
filter_paths(g, paths, i, data) ==
  IF i > Len(paths) THEN <<>>
  ELSE (IF path_valid(g, paths[i], data) THEN <<paths[i]>> ELSE <<>>)
       \o filter_paths(g, paths, i + 1, data)

find_top_paths_one_message(g, data) ==
  IF data.source = "" \/ data.target = "" THEN BadRequest(MsgRequired)
  ELSE LET paths == find_top_k_paths(g, data.source, data.target, data.k).val
           filtered_paths == filter_paths(g, paths, 1, data)
       IN  IF filtered_paths = <<>> THEN NotFound(MsgNoPaths)
           ELSE Found(filtered_paths)

\* POST /api/top-paths.
find_top_paths(g, data) ==
  IF data.source = "" \/ data.target = "" THEN BadRequest(MsgRequired)
  ELSE LET paths == find_top_k_paths(g, data.source, data.target, data.k).val
       IN  IF paths = <<>> THEN NotFound(MsgNoPaths)
           ELSE LET filtered_paths == filter_paths(g, paths, 1, data)
                IN  IF filtered_paths = <<>> THEN NotFound(MsgNoMatch)
                    ELSE Found(filtered_paths)

\* POST /api/multi-path: the handler find_multi_point_path of app.py.
route_multi_path(g, data) ==
  IF Len(data.waypoints) < 2 THEN BadRequest(MsgWaypoints)
  ELSE LET path == find_multi_point_path(g, data.waypoints)
       IN  IF path.kind = "none" \/ path.val = <<>> THEN NotFound(MsgNoMultiPath)
           ELSE IF ~path_valid(g, path.val, data) THEN NotFound(MsgFilteredOut)
           ELSE Found(<<path.val>>)

(***************************************************************************)
(* load_sample_data and the reload handlers.  The data the parser returns  *)
(* is an input; with no companies in it the loader falls back to the       *)
(* sample entities and relationships written in app.py.                    *)
(***************************************************************************)
FallbackEntities ==
  <<[id |-> "00012345", name |-> "ABC s.r.o.", type |-> "company"],
    [id |-> "00067891", name |-> "XYZ a.s.", type |-> "company"],
    [id |-> "RC123456", name |-> "Jan Novak", type |-> "person"],
    [id |-> "RC789012", name |-> "Petr Svoboda", type |-> "person"],
    [id |-> "00054321", name |-> "DEF s.r.o.", type |-> "company"]>>

FallbackRelationships ==
  <<<<"RC123456", "00012345", "jednatel">>,
    <<"00012345", "00067891", "spolecnik">>,
    <<"RC789012", "00067891", "jednatel">>,
    <<"RC123456", "00054321", "spolecnik">>,
    <<"00054321", "RC789012", "vlastnik">>>>

NoData == [companies |-> <<>>, relationships |-> <<>>]

Datasets ==
  {NoData,
   [companies |-> <<[id |-> "A", name |-> "ABC s.r.o.", type |-> "company"],
                    [id |-> "B", name |-> "Jan", type |-> "person"]>>,
    relationships |-> <<[source |-> "B", target |-> "A", type |-> "jednatel",
                         active |-> TRUE]>>],
   [companies |-> <<[id |-> "A", name |-> "ABC s.r.o.", type |-> "company",
                     insolvent |-> TRUE]>>,
    relationships |-> <<[source |-> "RC123456", target |-> "A",
                         type |-> "spolecnik"]>>]}

\* One turn of each loop of load_sample_data.
load_company(g, company) == add_entity(g, company.id, company)

load_relationship(g, rel) ==
  add_relationship(g, rel.source, rel.target, rel.type,
                   Metadata([active |-> DictGet(rel, "active", TRUE)]))

load_fallback_entity(g, entity) == add_entity(g, entity.id, entity)

load_fallback_relationship(g, r) == add_relationship(g, r[1], r[2], r[3], NoMetadata)

\* The loops run to their end from item i on.
RECURSIVE load_companies(_, _, _)
load_companies(g, companies, i) ==
  IF i > Len(companies) THEN g
  ELSE load_companies(load_company(g, companies[i]), companies, i + 1)

RECURSIVE load_relationships(_, _, _)
load_relationships(g, relationships, i) ==
  IF i > Len(relationships) THEN g
  ELSE load_relationships(load_relationship(g, relationships[i]), relationships, i + 1)

RECURSIVE load_fallback_entities(_, _)
load_fallback_entities(g, i) ==
  IF i > Len(FallbackEntities) THEN g
  ELSE load_fallback_entities(load_fallback_entity(g, FallbackEntities[i]), i + 1)

RECURSIVE load_fallback_relationships(_, _)
load_fallback_relationships(g, i) ==
  IF i > Len(FallbackRelationships) THEN g
  ELSE load_fallback_relationships(
         load_fallback_relationship(g, FallbackRelationships[i]), i + 1)

\* load_sample_data run from its first line to its return.
load_sample_data(g, real_data) ==
  IF real_data.companies /= <<>>
  THEN load_relationships(load_companies(g, real_data.companies, 1),
                          real_data.relationships, 1)
  ELSE load_fallback_relationships(load_fallback_entities(g, 1), 1)

(***************************************************************************)
(* The decoder of the registry's literal notation (parse_java_map).  Texts *)
(* are strings; pos is the index the code keeps, counted from 0, so s[pos] *)
(* is the character at pos + 1 here.  A decoded value is a record [kind,   *)
(* str, items]: a str, a dict (items the entries [key, val] in insertion   *)
(* order) or a list.  The parser calls itself once per level of nesting;   *)
(* the interpreter ends a recursion that is too deep with RecursionError,  *)
(* an Exception: every parse step reports in deep the deepest level it     *)
(* reached and MaxNesting stands for the interpreter's limit.              *)
(***************************************************************************)
py_str(t) == [kind |-> "str", str |-> t, items |-> <<>>]

py_dict(entries) == [kind |-> "dict", str |-> "", items |-> entries]

py_list(items) == [kind |-> "list", str |-> "", items |-> items]

Uncaught(exc) == [kind |-> "raise", str |-> exc, items |-> <<>>]

Whitespace == {" ", "\t", "\n", "\r"}

Letters ==
  {"a", "b", "c", "d", "e", "f", "g", "h", "i", "j", "k", "l", "m",
   "n", "o", "p", "q", "r", "s", "t", "u", "v", "w", "x", "y", "z",
   "A", "B", "C", "D", "E", "F", "G", "H", "I", "J", "K", "L", "M",
   "N", "O", "P", "Q", "R", "S", "T", "U", "V", "W", "X", "Y", "Z"}

Digits == {"0", "1", "2", "3", "4", "5", "6", "7", "8", "9"}

isalnum(c) == c \in Letters \cup Digits

\* s[pos]
At(s, pos) == SubSeq(s, pos + 1, pos + 1)

\* s[start:end]
py_slice(s, start, end) == SubSeq(s, start + 1, end)

RECURSIVE py_lstrip(_)
py_lstrip(s) ==
  IF Len(s) > 0 /\ At(s, 0) \in Whitespace
  THEN py_lstrip(py_slice(s, 1, Len(s))) ELSE s

RECURSIVE py_rstrip(_)
py_rstrip(s) ==
  IF Len(s) > 0 /\ At(s, Len(s) - 1) \in Whitespace
  THEN py_rstrip(py_slice(s, 0, Len(s) - 1)) ELSE s

py_strip(s) == py_rstrip(py_lstrip(s))

\* result[key] = val: a key already present keeps its place.
py_dict_set_front(entries, key, val) ==
  IF \E i \in 1..Len(entries) : entries[i].key = key
  THEN [i \in 1..Len(entries) |->
          IF entries[i].key = key THEN [key |-> key, val |-> val] ELSE entries[i]]
  ELSE <<[key |-> key, val |-> val]>> \o entries

py_dict_set(entries, key, val) ==
  IF \E i \in 1..Len(entries) : entries[i].key = key
  THEN [i \in 1..Len(entries) |->
          IF entries[i].key = key THEN [key |-> key, val |-> val] ELSE entries[i]]
  ELSE Append(entries, [key |-> key, val |-> val])

py_max(a, b) == IF a >= b THEN a ELSE b

RECURSIVE skip_ws(_, _)
skip_ws(s, pos) ==
  IF pos < Len(s) /\ At(s, pos) \in Whitespace THEN skip_ws(s, pos + 1) ELSE pos

RECURSIVE parse_key_scan(_, _)
parse_key_scan(s, pos) ==
  IF pos < Len(s) /\ At(s, pos) \notin {"=", ";", "{", "}", "[", "]"}
  THEN parse_key_scan(s, pos + 1) ELSE pos

parse_key(s, pos) ==
  LET end == parse_key_scan(s, pos)
  IN  [key |-> py_strip(py_slice(s, pos, end)), pos |-> end]

\* The lookahead at a ',' found at pos.
is_list_separator_always(s, pos) == TRUE

is_list_separator(s, pos) ==
  LET j == skip_ws(s, pos + 1)
  IN  j < Len(s) /\ At(s, j) \in {"{", "[", "]"}

RECURSIVE skip_identifier(_, _)
skip_identifier(s, k) ==
  IF k < Len(s) /\ (isalnum(At(s, k)) \/ At(s, k) = "_")
  THEN skip_identifier(s, k + 1) ELSE k

\* The lookahead at a ';' found at pos.
is_map_separator_any_key(s, pos) ==
  LET j == skip_ws(s, pos + 1)
      k == parse_key_scan(s, j)
  IN  k > j /\ k < Len(s) /\ At(s, k) = "="

is_map_separator(s, pos) ==
  LET j == skip_ws(s, pos + 1)
      k == skip_identifier(s, j)
  IN  k > j /\ k < Len(s) /\ At(s, k) = "="

\* One pass of the loop of parse_string with the separators tested at any
\* depth.
parse_string_step_any_depth(s, pos, depth) ==
  LET c == At(s, pos)
  IN  IF c \in {"{", "["} THEN [stop |-> FALSE, depth |-> depth + 1]
      ELSE IF c \in {"}", "]"}
      THEN IF depth > 0 THEN [stop |-> FALSE, depth |-> depth - 1]
           ELSE [stop |-> TRUE, depth |-> depth]
      ELSE IF c = ","
      THEN [stop |-> is_list_separator(s, pos), depth |-> depth]
      ELSE IF c = ";"
      THEN [stop |-> is_map_separator(s, pos), depth |-> depth]
      ELSE [stop |-> FALSE, depth |-> depth]

\* One pass of the loop of parse_string, at the character s[pos]: whether
\* the run ends there (break) and the depth after it.
parse_string_step(s, pos, depth) ==
  LET c == At(s, pos)
  IN  IF c \in {"{", "["} THEN [stop |-> FALSE, depth |-> depth + 1]
      ELSE IF c \in {"}", "]"}
      THEN IF depth > 0 THEN [stop |-> FALSE, depth |-> depth - 1]
           ELSE [stop |-> TRUE, depth |-> depth]
      ELSE IF depth = 0 /\ c = ","
      THEN [stop |-> is_list_separator(s, pos), depth |-> depth]
      ELSE IF depth = 0 /\ c = ";"
      THEN [stop |-> is_map_separator(s, pos), depth |-> depth]
      ELSE [stop |-> FALSE, depth |-> depth]

\* The loop of parse_string: the position where the run ends.
RECURSIVE parse_string_scan(_, _, _)
parse_string_scan(s, pos, depth) ==
  IF ~(pos < Len(s)) THEN pos
  ELSE LET step == parse_string_step(s, pos, depth)
       IN  IF step.stop THEN pos ELSE parse_string_scan(s, pos + 1, step.depth)

parse_string(s, pos, frames) ==
  LET end == parse_string_scan(s, pos, 0)
  IN  [val |-> py_str(py_strip(py_slice(s, pos, end))), pos |-> end,
       deep |-> frames,
       steps |-> (end - pos) + (IF end < Len(s) THEN 1 ELSE 0)]

RECURSIVE parse_value(_, _, _)
RECURSIVE parse_map_loop(_, _, _, _, _)
RECURSIVE parse_list_loop(_, _, _, _, _)

\* One pass of the while loop of parse_map that goes back to position 0
\* after a ';'.
parse_map_entry_restart(s, pos, result, frames, deep) ==
  LET k == parse_key(s, skip_ws(s, pos))
  IN  IF k.key = ""
      THEN [again |-> FALSE, pos |-> k.pos, result |-> result, deep |-> deep,
            steps |-> 0]
      ELSE LET p2 == skip_ws(s, k.pos)
               has_eq == p2 < Len(s) /\ At(s, p2) = "="
               v == parse_value(s, p2 + 1, frames + 1)
               result2 == IF has_eq THEN py_dict_set(result, k.key, v.val)
                          ELSE result
               deep2 == IF has_eq THEN py_max(deep, v.deep) ELSE deep
               steps2 == IF has_eq THEN v.steps ELSE 0
               p3 == skip_ws(s, IF has_eq THEN v.pos ELSE p2)
           IN  IF p3 < Len(s) /\ At(s, p3) = ";"
               THEN [again |-> TRUE, pos |-> 0, result |-> result2,
                     deep |-> deep2, steps |-> steps2]
               ELSE IF p3 < Len(s) /\ At(s, p3) = "}"
               THEN [again |-> FALSE, pos |-> p3 + 1, result |-> result2,
                     deep |-> deep2, steps |-> steps2]
               ELSE [again |-> FALSE, pos |-> p3, result |-> result2,
                     deep |-> deep2, steps |-> steps2]

\* One pass of the while loop of parse_map, entered at pos < len(s) with the
\* entries read so far: whether the loop goes on (no break), the position and
\* the entries after the pass, and the passes made by the calls inside it.
parse_map_entry(s, pos, result, frames, deep) ==
  LET k == parse_key(s, skip_ws(s, pos))
  IN  IF k.key = ""
      THEN [again |-> FALSE, pos |-> k.pos, result |-> result, deep |-> deep,
            steps |-> 0]
      ELSE LET p2 == skip_ws(s, k.pos)
               has_eq == p2 < Len(s) /\ At(s, p2) = "="
               v == parse_value(s, p2 + 1, frames + 1)
               result2 == IF has_eq THEN py_dict_set(result, k.key, v.val)
                          ELSE result
               deep2 == IF has_eq THEN py_max(deep, v.deep) ELSE deep
               steps2 == IF has_eq THEN v.steps ELSE 0
               p3 == skip_ws(s, IF has_eq THEN v.pos ELSE p2)
           IN  IF p3 < Len(s) /\ At(s, p3) = ";"
               THEN [again |-> TRUE, pos |-> p3 + 1, result |-> result2,
                     deep |-> deep2, steps |-> steps2]
               ELSE IF p3 < Len(s) /\ At(s, p3) = "}"
               THEN [again |-> FALSE, pos |-> p3 + 1, result |-> result2,
                     deep |-> deep2, steps |-> steps2]
               ELSE [again |-> FALSE, pos |-> p3, result |-> result2,
                     deep |-> deep2, steps |-> steps2]

\* What parse_map does after the pass it: the next pass, or the return.
parse_map_after(s, it, frames) ==
  IF it.again
  THEN LET r == parse_map_loop(s, it.pos, it.result, frames, it.deep)
       IN  [r EXCEPT !.steps = @ + it.steps + 1]
  ELSE [val |-> py_dict(it.result), pos |-> it.pos, deep |-> it.deep,
        steps |-> it.steps + 1]

\* The while loop of parse_map, entered with the entries read so far.
parse_map_loop(s, pos, result, frames, deep) ==
  IF ~(pos < Len(s))
  THEN [val |-> py_dict(result), pos |-> pos, deep |-> deep, steps |-> 0]
  ELSE parse_map_after(s, parse_map_entry(s, pos, result, frames, deep), frames)

parse_map(s, pos, frames) ==
  LET p1 == skip_ws(s, pos + 1)
  IN  IF p1 < Len(s) /\ At(s, p1) = "}"
      THEN [val |-> py_dict(<<>>), pos |-> p1 + 1, deep |-> frames, steps |-> 0]
      ELSE parse_map_loop(s, p1, <<>>, frames, frames)

\* One pass of the while loop of parse_list, entered at pos < len(s) with the
\* items read so far.
parse_list_item(s, pos, result, frames, deep) ==
  LET v == parse_value(s, skip_ws(s, pos), frames + 1)
      result2 == Append(result, v.val)
      deep2 == py_max(deep, v.deep)
      p2 == skip_ws(s, v.pos)
  IN  IF p2 < Len(s) /\ At(s, p2) = ","
      THEN [again |-> TRUE, pos |-> skip_ws(s, p2 + 1), result |-> result2,
            deep |-> deep2, steps |-> v.steps]
      ELSE IF p2 < Len(s) /\ At(s, p2) = "]"
      THEN [again |-> FALSE, pos |-> p2 + 1, result |-> result2,
            deep |-> deep2, steps |-> v.steps]
      ELSE [again |-> FALSE, pos |-> p2, result |-> result2,
            deep |-> deep2, steps |-> v.steps]

\* What parse_list does after the pass it: the next pass, or the return.
parse_list_after(s, it, frames) ==
  IF it.again
  THEN LET r == parse_list_loop(s, it.pos, it.result, frames, it.deep)
       IN  [r EXCEPT !.steps = @ + it.steps + 1]
  ELSE [val |-> py_list(it.result), pos |-> it.pos, deep |-> it.deep,
        steps |-> it.steps + 1]

\* The while loop of parse_list, entered with the items read so far.
parse_list_loop(s, pos, result, frames, deep) ==
  IF ~(pos < Len(s))
  THEN [val |-> py_list(result), pos |-> pos, deep |-> deep, steps |-> 0]
  ELSE parse_list_after(s, parse_list_item(s, pos, result, frames, deep), frames)

parse_list(s, pos, frames) ==
  LET p1 == skip_ws(s, pos + 1)
  IN  IF p1 < Len(s) /\ At(s, p1) = "]"
      THEN [val |-> py_list(<<>>), pos |-> p1 + 1, deep |-> frames, steps |-> 0]
      ELSE parse_list_loop(s, p1, <<>>, frames, frames)

parse_value(s, pos, frames) ==
  LET p == skip_ws(s, pos)
  IN  IF p >= Len(s)
      THEN [val |-> py_str(""), pos |-> p, deep |-> frames, steps |-> 0]
      ELSE IF At(s, p) = "{" THEN parse_map(s, p, frames)
      ELSE IF At(s, p) = "[" THEN parse_list(s, p, frames)
      ELSE parse_string(s, p, frames)

parse_java_map_uncaught(s) ==
  LET r == parse_value(s, 0, 1)
  IN  IF r.deep > MaxNesting THEN Uncaught("RecursionError") ELSE r.val

parse_java_map(s) ==
  LET r == parse_value(s, 0, 1)
  IN  IF r.deep > MaxNesting THEN py_str(s) ELSE r.val

(***************************************************************************)
(* Extraction of one registry row (parse_or_row).  A row is the dict the   *)
(* csv reader hands over: column name to cell, a cell being a str, or None *)
(* where the line was shorter than the header.  Decoded values keep their  *)
(* Python type, so a method called on a value of the wrong type raises     *)
(* AttributeError as it does in the code.  The Czech string constants are  *)
(* written without diacritics.                                             *)
(***************************************************************************)
PyNone == [kind |-> "none", str |-> "", items |-> <<>>]

\* bool(v)
py_truthy(v) ==
  IF v.kind = "str" THEN v.str /= ""
  ELSE IF v.kind \in {"dict", "list"} THEN v.items /= <<>>
  ELSE FALSE

\* d.get(key, default) on a dict
py_get(d, key, default) ==
  IF \E i \in 1..Len(d.items) : d.items[i].key = key
  THEN d.items[CHOOSE i \in 1..Len(d.items) : d.items[i].key = key].val
  ELSE default

\* s.replace(' ', '_')
RECURSIVE py_replace_spaces(_)
py_replace_spaces(s) ==
  IF Len(s) = 0 THEN ""
  ELSE (IF At(s, 0) = " " THEN "_" ELSE At(s, 0))
       \o py_replace_spaces(py_slice(s, 1, Len(s)))

UpperCase == "ABCDEFGHIJKLMNOPQRSTUVWXYZ"

LowerCase == "abcdefghijklmnopqrstuvwxyz"

\* s.lower()
RECURSIVE py_lower(_)
py_lower(s) ==
  IF Len(s) = 0 THEN ""
  ELSE LET c == At(s, 0)
           up == {i \in 0..(Len(UpperCase) - 1) : At(UpperCase, i) = c}
       IN  (IF up = {} THEN c ELSE At(LowerCase, CHOOSE i \in up : TRUE))
           \o py_lower(py_slice(s, 1, Len(s)))

\* dict.update that appends every entry of other, a key already present
\* included.
RECURSIVE py_dict_update_append(_, _, _)
py_dict_update_append(entries, other, i) ==
  IF i > Len(other) THEN entries
  ELSE py_dict_update_append(Append(entries, other[i]), other, i + 1)

\* dict.update: the entries of other written into entries one by one.
RECURSIVE py_dict_update(_, _, _)
py_dict_update(entries, other, i) ==
  IF i > Len(other) THEN entries
  ELSE py_dict_update(py_dict_set(entries, other[i].key, other[i].val), other, i + 1)

\* typ = x.get('udajTyp', {}); typ.get('kod', '') if isinstance(typ, dict) else ''
typ_kod(x) ==
  LET typ == py_get(x, "udajTyp", py_dict(<<>>))
  IN  IF typ.kind = "dict" THEN py_get(typ, "kod", py_str("")) ELSE py_str("")

\* The city of the first registered seat that is not deleted ('' if none).
RECURSIVE seat_city(_, _)
seat_city(udaje, i) ==
  IF i > Len(udaje) THEN py_str("")
  ELSE LET item == udaje[i]
       IN  IF item.kind /= "dict" THEN seat_city(udaje, i + 1)
           ELSE IF /\ typ_kod(item) = py_str("SIDLO")
                   /\ ~py_truthy(py_get(item, "vymazDatum", PyNone))
           THEN LET adresa == py_get(item, "adresa", py_dict(<<>>))
                IN  IF adresa.kind = "dict" THEN py_get(adresa, "obec", py_str(""))
                    ELSE py_str("")
           ELSE seat_city(udaje, i + 1)

\* jmeno, prijmeni and narozDatum of osoba, stripped.
person_fields(osoba) ==
  IF osoba.kind /= "dict" THEN [exc |-> "AttributeError"]
  ELSE LET jmeno == py_get(osoba, "jmeno", py_str(""))
           prijmeni == py_get(osoba, "prijmeni", py_str(""))
           narozDatum == py_get(osoba, "narozDatum", py_str(""))
       IN  IF jmeno.kind /= "str" \/ prijmeni.kind /= "str" \/ narozDatum.kind /= "str"
           THEN [exc |-> "AttributeError"]
           ELSE [exc |-> "", jmeno |-> py_strip(jmeno.str),
                 prijmeni |-> py_strip(prijmeni.str),
                 narozDatum |-> py_strip(narozDatum.str)]

person_id(p) ==
  py_replace_spaces("RC_" \o p.prijmeni \o "_" \o p.jmeno \o "_" \o p.narozDatum)

person_entity(p) ==
  [id |-> person_id(p), name |-> py_strip(p.jmeno \o " " \o p.prijmeni),
   type |-> "person", city |-> py_str(""), country |-> "CZ", insolvent |-> FALSE]

\* The role of a member, whatever funkce holds.
member_role_default(member) == [exc |-> "", role |-> "jednatel"]

\* The role of a member of the statutory body.
member_role(member) ==
  LET funkce == py_get(member, "funkce", py_str(""))
  IN  IF funkce.kind = "dict"
      THEN LET nazev == py_get(funkce, "nazev", py_str("jednatel"))
           IN  IF nazev.kind /= "str" THEN [exc |-> "AttributeError"]
               ELSE [exc |-> "", role |-> py_lower(nazev.str)]
      ELSE IF funkce.kind = "str" /\ funkce.str /= ""
      THEN [exc |-> "", role |-> py_lower(funkce.str)]
      ELSE [exc |-> "", role |-> "jednatel"]

Relationship(source, target, type, active) ==
  [source |-> source, target |-> target, type |-> type, active |-> active]

\* One pass of the loop over the members of the statutory body; st holds
\* relationships, persons_found and the exception raised so far, if any.
statutory_member(st, member, ico) ==
  IF st.exc /= "" \/ member.kind /= "dict" THEN st
  ELSE IF typ_kod(member) /= py_str("STATUTARNI_ORGAN_CLEN") THEN st
  ELSE LET osoba == py_get(member, "osoba", py_dict(<<>>))
           p == person_fields(osoba)
           is_active == ~py_truthy(py_get(member, "vymazDatum", PyNone))
           r == member_role(member)
       IN  IF ~py_truthy(osoba) THEN st
           ELSE IF p.exc /= "" THEN [st EXCEPT !.exc = p.exc]
           ELSE IF p.prijmeni = "" THEN st
           ELSE IF r.exc /= "" THEN [st EXCEPT !.exc = r.exc]
           ELSE [st EXCEPT
                   !.persons_found = py_dict_set(@, person_id(p), person_entity(p)),
                   !.relationships =
                     Append(@, Relationship(person_id(p), ico,
                                            IF r.role /= "" THEN r.role ELSE "jednatel",
                                            is_active))]

\* One pass of the loop over the shareholders.
shareholder(st, spolecnik, ico) ==
  IF st.exc /= "" \/ spolecnik.kind /= "dict" THEN st
  ELSE LET spolecnik_kod == typ_kod(spolecnik)
           is_active == ~py_truthy(py_get(spolecnik, "vymazDatum", PyNone))
       IN  IF spolecnik_kod = py_str("SPOLECNIK_OSOBA")
           THEN LET osoba == py_get(spolecnik, "osoba", py_dict(<<>>))
                    p == person_fields(osoba)
                IN  IF ~py_truthy(osoba) THEN st
                    ELSE IF p.exc /= "" THEN [st EXCEPT !.exc = p.exc]
                    ELSE IF p.prijmeni = "" THEN st
                    ELSE [st EXCEPT
                            !.persons_found =
                              py_dict_set(@, person_id(p), person_entity(p)),
                            !.relationships =
                              Append(@, Relationship(person_id(p), ico,
                                                     "spolecnik", is_active))]
           ELSE IF spolecnik_kod = py_str("SPOLECNIK_PRAVNICKA_OSOBA")
           THEN LET pravnicka == py_get(spolecnik, "pravnickaOsoba", py_dict(<<>>))
                    shareholder_ico == py_get(pravnicka, "ico", py_str(""))
                IN  IF ~py_truthy(pravnicka) THEN st
                    ELSE IF pravnicka.kind /= "dict" \/ shareholder_ico.kind /= "str"
                    THEN [st EXCEPT !.exc = "AttributeError"]
                    ELSE IF py_strip(shareholder_ico.str) = "" THEN st
                    ELSE [st EXCEPT
                            !.relationships =
                              Append(@, Relationship(py_strip(shareholder_ico.str), ico,
                                                     "spolecnik", is_active))]
           ELSE st

RECURSIVE statutory_members(_, _, _, _)
statutory_members(st, podudaje, i, ico) ==
  IF i > Len(podudaje) THEN st
  ELSE statutory_members(statutory_member(st, podudaje[i], ico), podudaje, i + 1, ico)

RECURSIVE shareholders(_, _, _, _)
shareholders(st, podudaje, i, ico) ==
  IF i > Len(podudaje) THEN st
  ELSE shareholders(shareholder(st, podudaje[i], ico), podudaje, i + 1, ico)

\* One pass of the second loop over udaje.
udaje_item(st, item, ico) ==
  IF st.exc /= "" \/ item.kind /= "dict" THEN st
  ELSE LET podudaje == py_get(item, "podudaje", py_list(<<>>))
       IN  IF typ_kod(item) = py_str("STATUTARNI_ORGAN")
           THEN IF podudaje.kind /= "list" THEN st
                ELSE statutory_members(st, podudaje.items, 1, ico)
           ELSE IF typ_kod(item) = py_str("SPOLECNIK")
           THEN IF podudaje.kind /= "list" THEN st
                ELSE shareholders(st, podudaje.items, 1, ico)
           ELSE st

RECURSIVE udaje_items(_, _, _, _)
udaje_items(st, udaje, i, ico) ==
  IF i > Len(udaje) THEN st
  ELSE udaje_items(udaje_item(st, udaje[i], ico), udaje, i + 1, ico)

\* A decoded dict wrapped into a list, anything but a list dropped.
udaje_list(parsed) ==
  IF parsed.kind = "list" THEN parsed.items
  ELSE IF parsed.kind = "dict" THEN <<parsed>>
  ELSE <<>>

\* The decoded udaje column as the list the loops walk.
udaje_of(row) ==
  LET udaje_raw == py_get(row, "udaje", py_str(""))
  IN  IF ~py_truthy(udaje_raw) THEN <<>>
      ELSE udaje_list(parse_java_map(udaje_raw.str))

\* parse_or_row once the udaje column is decoded.
parse_or_row_udaje(row, udaje) ==
  LET ico_cell == py_get(row, "ico", py_str(""))
      ico == py_strip(ico_cell.str)
      name_cell == py_get(row, "nazev", py_get(row, "obchodniJmeno", py_str("")))
      company_name == IF py_strip(name_cell.str) /= "" THEN py_strip(name_cell.str)
                      ELSE "Spolecnost " \o ico
      seat == seat_city(udaje, 1)
      city_cell == py_get(row, "sidlo_nazevObce", py_get(row, "mesto", py_str("")))
      city == IF py_truthy(seat) THEN seat ELSE py_str(py_strip(city_cell.str))
      company == [id |-> ico, name |-> company_name, type |-> "company",
                  city |-> IF py_truthy(city) THEN city ELSE py_str("nezname"),
                  country |-> "CZ", insolvent |-> FALSE]
      st == udaje_items([relationships |-> <<>>, persons_found |-> <<>>, exc |-> ""],
                        udaje, 1, ico)
  IN  IF ico_cell.kind /= "str" THEN Raise("AttributeError")
      ELSE IF ico = "" THEN Value(<<PyNone, <<>>>>)
      ELSE IF name_cell.kind /= "str" THEN Raise("AttributeError")
      ELSE IF ~py_truthy(seat) /\ city_cell.kind /= "str" THEN Raise("AttributeError")
      ELSE IF st.exc /= "" THEN Raise(st.exc)
      ELSE Value(<<company, st.relationships, st.persons_found>>)

parse_or_row(row) == parse_or_row_udaje(row, udaje_of(row))

(***************************************************************************)
(* Ingestion of a registry file (parse_or_csv), row by row.  The frame f   *)
(* holds the local variables of the call; rows is what the csv reader      *)
(* yields, in file order.  Opening the file and finding its encoding are   *)
(* left out: the rows are taken as read.                                   *)
(***************************************************************************)
parse_or_csv_start(rows, max_rows) ==
  [rows |-> rows, max_rows |-> max_rows, i |-> 1,
   companies |-> <<>>, relationships |-> <<>>, all_persons |-> <<>>,
   company_icos |-> {}, parsed_count |-> 0, skipped |-> 0]

\* The loop goes on: a row is left and the limit is not reached.
parse_or_csv_more(f) == f.i <= Len(f.rows) /\ ~(f.parsed_count >= f.max_rows)

\* The body of the loop for the row f.rows[f.i], a repeated identifier
\* counting as new.
parse_or_csv_row_no_dedup(f) ==
  LET result == parse_or_row(f.rows[f.i])
      next == [f EXCEPT !.i = @ + 1]
  IN  IF result.kind = "raise" THEN [next EXCEPT !.skipped = @ + 1]
      ELSE IF result.val[1] = PyNone THEN [next EXCEPT !.skipped = @ + 1]
      ELSE LET company == result.val[1]
               rels == result.val[2]
               persons == result.val[3]
           IN  [next EXCEPT
                  !.company_icos = @ \cup {company.id},
                  !.companies = Append(@, company),
                  !.relationships = @ \o rels,
                  !.all_persons = py_dict_update(@, persons, 1),
                  !.parsed_count = @ + 1]

\* The body of the loop for the row f.rows[f.i], every row counted
\* towards the limit.
parse_or_csv_row_counts_rows(f) ==
  LET result == parse_or_row(f.rows[f.i])
      next == [f EXCEPT !.i = @ + 1, !.parsed_count = @ + 1]
  IN  IF result.kind = "raise" THEN [next EXCEPT !.skipped = @ + 1]
      ELSE IF result.val[1] = PyNone THEN [next EXCEPT !.skipped = @ + 1]
      ELSE LET company == result.val[1]
               rels == result.val[2]
               persons == result.val[3]
           IN  IF company.id \in f.company_icos THEN next
               ELSE [next EXCEPT
                       !.company_icos = @ \cup {company.id},
                       !.companies = Append(@, company),
                       !.relationships = @ \o rels,
                       !.all_persons = py_dict_update(@, persons, 1)]

\* The body of the loop for the row f.rows[f.i], an extraction error
\* ending the batch.
parse_or_csv_row_abort(f) ==
  LET result == parse_or_row(f.rows[f.i])
      next == [f EXCEPT !.i = @ + 1]
  IN  IF result.kind = "raise"
      THEN [parse_or_csv_start(f.rows, f.max_rows) EXCEPT !.i = Len(f.rows) + 1]
      ELSE IF result.val[1] = PyNone THEN [next EXCEPT !.skipped = @ + 1]
      ELSE LET company == result.val[1]
               rels == result.val[2]
               persons == result.val[3]
           IN  IF company.id \in f.company_icos THEN next
               ELSE [next EXCEPT
                       !.company_icos = @ \cup {company.id},
                       !.companies = Append(@, company),
                       !.relationships = @ \o rels,
                       !.all_persons = py_dict_update(@, persons, 1),
                       !.parsed_count = @ + 1]

\* The body of the loop for the row f.rows[f.i], the persons found in the
\* row left out.
parse_or_csv_row_drop_persons(f) ==
  LET result == parse_or_row(f.rows[f.i])
      next == [f EXCEPT !.i = @ + 1]
  IN  IF result.kind = "raise" THEN [next EXCEPT !.skipped = @ + 1]
      ELSE IF result.val[1] = PyNone THEN [next EXCEPT !.skipped = @ + 1]
      ELSE LET company == result.val[1]
               rels == result.val[2]
           IN  IF company.id \in f.company_icos THEN next
               ELSE [next EXCEPT
                       !.company_icos = @ \cup {company.id},
                       !.companies = Append(@, company),
                       !.relationships = @ \o rels,
                       !.parsed_count = @ + 1]

\* The body of the loop for the row f.rows[f.i].
parse_or_csv_row(f) ==
  LET result == parse_or_row(f.rows[f.i])
      next == [f EXCEPT !.i = @ + 1]
  IN  IF result.kind = "raise" THEN [next EXCEPT !.skipped = @ + 1]
      ELSE IF result.val[1] = PyNone THEN [next EXCEPT !.skipped = @ + 1]
      ELSE LET company == result.val[1]
               rels == result.val[2]
               persons == result.val[3]
           IN  IF company.id \in f.company_icos THEN next
               ELSE [next EXCEPT
                       !.company_icos = @ \cup {company.id},
                       !.companies = Append(@, company),
                       !.relationships = @ \o rels,
                       !.all_persons = py_dict_update(@, persons, 1),
                       !.parsed_count = @ + 1]

\* all_persons.values()
py_dict_values(entries) == [i \in 1..Len(entries) |-> entries[i].val]

\* What parse_or_csv returns after the loop.
parse_or_csv_result(f) ==
  [companies |-> f.companies \o py_dict_values(f.all_persons),
   relationships |-> f.relationships]

RECURSIVE parse_or_csv_loop(_)
parse_or_csv_loop(f) ==
  IF parse_or_csv_more(f) THEN parse_or_csv_loop(parse_or_csv_row(f)) ELSE f

parse_or_csv(rows, max_rows) ==
  parse_or_csv_result(parse_or_csv_loop(parse_or_csv_start(rows, max_rows)))

NoResp == [op |-> "none"]

\* The reload handler at rest.
Idle == [pc |-> "idle"]

\* cleared before any clear(), and after an insertion.
NotCleared == [on |-> FALSE, dropped |-> {}]

Init ==
  /\ graph = EmptyGraph
  /\ resp = NoResp
  /\ cleared = NotCleared
  /\ reload = Idle

\* The core is synchronous: a call is made when the previous one has returned.
Return ==
  /\ resp /= NoResp
  /\ resp' = NoResp
  /\ UNCHANGED <<graph, cleared, reload>>

AddEntity(ids, datas) ==
  \E id \in ids, d \in datas :
    /\ resp = NoResp
    /\ graph' = add_entity(graph, id, d)
    /\ resp' = [op |-> "add_entity", id |-> id, data |-> d,
                adj_before |-> IF has_entity(graph, id) THEN graph.adj[id]
                               ELSE EmptyDict]
    /\ cleared' = NotCleared
    /\ UNCHANGED reload

AddRelationship(pairs, kinds) ==
  \E p \in pairs, k \in kinds :
    /\ resp = NoResp
    /\ graph' = add_relationship(graph, p[1], p[2], k[1], k[2])
    /\ resp' = [op |-> "add_relationship", u |-> p[1], v |-> p[2],
                type |-> k[1], metadata |-> k[2],
                unknown |-> {p[1], p[2]} \ DOMAIN graph.node,
                edges_before |-> number_of_edges(graph),
                old |-> IF has_edge(graph, p[1], p[2])
                        THEN <<graph.adj[p[1]][p[2]]>> ELSE <<>>]
    /\ cleared' = NotCleared
    /\ UNCHANGED reload

Clear ==
  /\ resp = NoResp
  /\ graph' = clear(graph)
  /\ resp' = [op |-> "clear"]
  /\ cleared' = [on |-> TRUE, dropped |-> DOMAIN graph.node]
  /\ UNCHANGED reload

GetGraphStats ==
  /\ resp = NoResp
  /\ resp' = [op |-> "get_graph_stats", ret |-> get_graph_stats(graph)]
  /\ UNCHANGED <<graph, cleared, reload>>

\* export_subgraph(path, depth) cutting the graph itself down to the
\* exported nodes.
ExportSubgraphInPlace(paths, depths, orders) ==
  /\ resp = NoResp
  /\ \E path \in paths, depth \in depths, order \in orders :
       LET ret == export_subgraph(graph, path, depth, order)
           kept == IF ret.kind = "value"
                   THEN {ret.val.nodes[i].id : i \in 1..Len(ret.val.nodes)}
                   ELSE DOMAIN graph.node
       IN  /\ resp' = [op |-> "export_subgraph", path |-> path, depth |-> depth,
                       ret |-> ret]
           /\ graph' = [node |-> [n \in kept |-> graph.node[n]],
                        adj |-> [n \in kept |->
                                   [w \in DOMAIN graph.adj[n] \cap kept |->
                                      graph.adj[n][w]]]]
  /\ UNCHANGED <<cleared, reload>>

\* export_subgraph(path, depth); order is the order in which the view of
\* the subgraph yields its nodes.
ExportSubgraph(paths, depths, orders) ==
  /\ resp = NoResp
  /\ \E path \in paths, depth \in depths, order \in orders :
       resp' = [op |-> "export_subgraph", path |-> path, depth |-> depth,
                ret |-> export_subgraph(graph, path, depth, order)]
  /\ UNCHANGED <<graph, cleared, reload>>

FindShortestPath(ids) ==
  \E s \in ids, t \in ids :
    /\ resp = NoResp
    /\ resp' = [op |-> "find_shortest_path", source |-> s, target |-> t,
                ret |-> find_shortest_path(graph, s, t)]
    /\ UNCHANGED <<graph, cleared, reload>>

FindTopKPaths(ids, ks) ==
  \E s \in ids, t \in ids, k \in ks :
    /\ resp = NoResp
    /\ resp' = [op |-> "find_top_k_paths", source |-> s, target |-> t, k |-> k,
                ret |-> find_top_k_paths(graph, s, t, k)]
    /\ UNCHANGED <<graph, cleared, reload>>

FindMultiPointPath(lists) ==
  \E w \in lists :
    /\ resp = NoResp
    /\ resp' = [op |-> "find_multi_point_path", waypoints |-> w,
                ret |-> find_multi_point_path(graph, w)]
    /\ UNCHANGED <<graph, cleared, reload>>

TopPaths(requests) ==
  \E data \in requests :
    /\ resp = NoResp
    /\ resp' = [op |-> "top_paths", data |-> data,
                body |-> find_top_paths(graph, data)]
    /\ UNCHANGED <<graph, cleared, reload>>

MultiPath(requests) ==
  \E data \in requests :
    /\ resp = NoResp
    /\ resp' = [op |-> "multi_path", data |-> data,
                body |-> route_multi_path(graph, data)]
    /\ UNCHANGED <<graph, cleared, reload>>

(***************************************************************************)
(* The service: the module is imported, which loads the data, and then     *)
(* requests are served by the threads of the server.  A reload handler     *)
(* (debug_reload, enable_real_data) clears the shared graph and runs       *)
(* load_sample_data on it, one graph call after the other, with no lock;   *)
(* a query handler reads the graph at whatever point the reload is.        *)
(***************************************************************************)
InitService ==
  /\ \E d \in Datasets : graph = load_sample_data(EmptyGraph, d)
  /\ resp = NoResp
  /\ cleared = NotCleared
  /\ reload = Idle

\* graph_builder.graph.clear(), then load_sample_data up to the data the
\* parser returns.
ReloadClear(datasets) ==
  \E d \in datasets :
    /\ reload.pc = "idle"
    /\ graph' = clear(graph)
    /\ cleared' = [on |-> TRUE, dropped |-> DOMAIN graph.node]
    /\ reload' = [pc |-> IF d.companies /= <<>> THEN "companies"
                         ELSE "fallback_entities",
                  data |-> d, i |-> 1, old |-> graph]
    /\ UNCHANGED resp

ReloadCompany ==
  /\ reload.pc = "companies"
  /\ IF reload.i <= Len(reload.data.companies)
     THEN /\ graph' = load_company(graph, reload.data.companies[reload.i])
          /\ reload' = [reload EXCEPT !.i = @ + 1]
          /\ cleared' = NotCleared
     ELSE /\ reload' = [reload EXCEPT !.pc = "relationships", !.i = 1]
          /\ UNCHANGED <<graph, cleared>>
  /\ UNCHANGED resp

ReloadRelationship ==
  /\ reload.pc = "relationships"
  /\ IF reload.i <= Len(reload.data.relationships)
     THEN /\ graph' = load_relationship(graph, reload.data.relationships[reload.i])
          /\ reload' = [reload EXCEPT !.i = @ + 1]
          /\ cleared' = NotCleared
     ELSE /\ reload' = Idle
          /\ UNCHANGED <<graph, cleared>>
  /\ UNCHANGED resp

ReloadFallbackEntity ==
  /\ reload.pc = "fallback_entities"
  /\ IF reload.i <= Len(FallbackEntities)
     THEN /\ graph' = load_fallback_entity(graph, FallbackEntities[reload.i])
          /\ reload' = [reload EXCEPT !.i = @ + 1]
          /\ cleared' = NotCleared
     ELSE /\ reload' = [reload EXCEPT !.pc = "fallback_relationships", !.i = 1]
          /\ UNCHANGED <<graph, cleared>>
  /\ UNCHANGED resp

ReloadFallbackRelationship ==
  /\ reload.pc = "fallback_relationships"
  /\ IF reload.i <= Len(FallbackRelationships)
     THEN /\ graph' = load_fallback_relationship(graph, FallbackRelationships[reload.i])
          /\ reload' = [reload EXCEPT !.i = @ + 1]
          /\ cleared' = NotCleared
     ELSE /\ reload' = Idle
          /\ UNCHANGED <<graph, cleared>>
  /\ UNCHANGED resp

\* POST /api/shortest-path served by another thread: the graph it reads is
\* the shared one, as the reload has left it so far.  complete holds the
\* graphs a serialized reload would let it read: the one before the reload
\* and the one the reload is loading.
QueryDuringService(ids) ==
  \E s \in ids, t \in ids :
    /\ resp = NoResp
    /\ resp' = [op |-> "shortest_path_request", source |-> s, target |-> t,
                ret |-> find_shortest_path(graph, s, t),
                seen |-> graph,
                complete |-> IF reload.pc = "idle" THEN {graph}
                             ELSE {reload.old,
                                   load_sample_data(EmptyGraph, reload.data)}]
    /\ UNCHANGED <<graph, cleared, reload>>

\* The waypoint lists of at most n identifiers.
WaypointLists(ids, n) == UNION {[1..m -> ids] : m \in 0..n}

\* The pairs a loader may relate: every ordered pair of different
\* identifiers, and one self-loop.
RelPairs(ids) == {p \in ids \X ids : p[1] /= p[2]} \cup {<<"A", "A">>}

RelKinds == {<<"jednatel", NoMetadata>>, <<"vlastnik", InactiveMetadata>>}

Next ==
  \/ AddEntity(SmallIds, {PlainData, InsolventData})
  \/ AddRelationship(RelPairs(SmallIds), RelKinds)
  \/ Clear
  \/ GetGraphStats
  \/ Return

Spec == Init /\ [][Next]_vars

NextPath ==
  \/ AddEntity({"D"}, {PlainData})
  \/ AddRelationship(RelPairs(Ids), {<<"jednatel", NoMetadata>>})
  \/ Clear
  \/ FindShortestPath(Ids)
  \/ FindTopKPaths(Ids, (-1)..MaxK)
  \/ FindMultiPointPath(WaypointLists(Ids, MaxWaypoints))
  \/ Return

SpecPath == Init /\ [][NextPath]_vars

\* The JSON bodies of the filtering requests.
TopPathsRequests ==
  [source : SmallIds, target : SmallIds, k : 1..MaxFilterK,
   exclude_insolvent : BOOLEAN, exclude_foreign : BOOLEAN,
   exclude_inactive : BOOLEAN]
  \cup [source : {""}, target : {"", "A"}, k : {MaxFilterK},
        exclude_insolvent : {FALSE}, exclude_foreign : {FALSE},
        exclude_inactive : {TRUE}]

MultiPathRequests ==
  [waypoints : WaypointLists(SmallIds, MaxFilterWaypoints),
   exclude_insolvent : BOOLEAN, exclude_foreign : BOOLEAN,
   exclude_inactive : BOOLEAN]

NextFilter ==
  \/ AddEntity(SmallIds, {InsolventData, ForeignData})
  \/ AddRelationship({p \in SmallIds \X SmallIds : p[1] /= p[2]}, RelKinds)
  \/ Clear
  \/ TopPaths(TopPathsRequests)
  \/ MultiPath(MultiPathRequests)
  \/ Return

SpecFilter == Init /\ [][NextFilter]_vars

NextService ==
  \/ ReloadClear(Datasets)
  \/ ReloadCompany
  \/ ReloadRelationship
  \/ ReloadFallbackEntity
  \/ ReloadFallbackRelationship
  \/ QueryDuringService({"A", "B", "RC123456", "00012345"})
  \/ Return

SpecService == InitService /\ [][NextService]_vars

\* The orders in which a view may yield the identifiers ids.
Orders(ids) ==
  {o \in [1..Cardinality(ids) -> ids] :
     \A i \in DOMAIN o, j \in DOMAIN o : i /= j => o[i] /= o[j]}

\* The JSON bodies of the filtering requests sent between the other queries.
QueryRequests ==
  {data \in TopPathsRequests : data.k = MaxFilterK /\ ~data.exclude_foreign}

QueryWaypointRequests ==
  {data \in MultiPathRequests : ~data.exclude_foreign}

NextQuery ==
  \/ AddEntity(SmallIds, {InsolventData})
  \/ AddRelationship(RelPairs(SmallIds), {<<"vlastnik", InactiveMetadata>>})
  \/ Clear
  \/ GetGraphStats
  \/ FindShortestPath(SmallIds)
  \/ FindTopKPaths(SmallIds, 0..MaxFilterK)
  \/ FindMultiPointPath(WaypointLists(SmallIds, MaxFilterWaypoints))
  \/ TopPaths(QueryRequests)
  \/ MultiPath(QueryWaypointRequests)
  \/ ExportSubgraph(WaypointLists(SmallIds, MaxFilterWaypoints), 0..MaxDepth,
                    Orders(SmallIds))
  \/ Return

SpecQuery == Init /\ [][NextQuery]_vars

(***************************************************************************)
(* The texts handed to the decoder: every string over Alphabet of at most  *)
(* MaxLen characters, the literals of the registry's notation written out  *)
(* from a tree, and a few longer ones.                                     *)
(***************************************************************************)
Alphabet == {"{", "}", "[", "]", "=", ";", ",", " ", "a", "1", "_", "-"}

RECURSIVE Strings(_)
Strings(n) ==
  IF n = 0 THEN {""}
  ELSE LET shorter == Strings(n - 1)
       IN  shorter \cup {c \o t : c \in Alphabet,
                                  t \in {x \in shorter : Len(x) = n - 1}}

RECURSIVE Repeat(_, _)
Repeat(c, n) == IF n = 0 THEN "" ELSE c \o Repeat(c, n - 1)

\* A list nested one level deeper than the interpreter allows.
DeepText == Repeat("[", MaxNesting + 1)

SampleTexts ==
  {"{a=1;b=2}", "[{x=1},{x=2}]", "{note=Vyroba, obchod a sluzby;city=Praha}",
   "{a=1;a=2}", "{a=x;y;b_1=2}", "{a=x; my-key=2}", "{a=1}xyz", "[{a=1} {b=2}]",
   "x;b_1=2", "x; my-key=2;k=1", "x;9=", "Vyroba, obchod a sluzby;city=Praha}",
   "x{;a=1}]", "x[, {y}],{", "x{y]z;a=1", "x[{;a=1",
   "[{a=1;b=2}, {a=x y;b_1=}]", DeepText}

DecodeTexts == Strings(MaxLen) \cup SampleTexts

\* The texts on which parse_value starts a Text run at the first character.
RunTexts ==
  {s \in DecodeTexts : Len(s) > 0 /\ At(s, 0) \notin Whitespace \cup {"{", "["}}

LiteralTexts == {"1", "x y", ""}

LiteralKeys == {"a", "b_1"}

Leaves == {py_str(t) : t \in LiteralTexts}

Entry(k, v) == [key |-> k, val |-> v]

\* The Maps of at most one entry with a value of vals.
SmallMaps(vals) ==
  {py_dict(<<>>)} \cup {py_dict(<<Entry(k, v)>>) : k \in LiteralKeys, v \in vals}

\* The Maps of two entries, the first value of vals1, the second of vals2.
PairMaps(vals1, vals2) ==
  {py_dict(<<Entry(k[1], v1), Entry(k[2], v2)>>) :
     k \in {p \in LiteralKeys \X LiteralKeys : p[1] /= p[2]},
     v1 \in vals1, v2 \in vals2}

\* The Lists of at most MaxItems Maps.
ListsOf(maps) == {py_list(l) : l \in UNION {[1..n -> maps] : n \in 0..MaxItems}}

Nested ==
  Leaves \cup SmallMaps(Leaves) \cup PairMaps(Leaves, Leaves)
         \cup ListsOf(SmallMaps(Leaves))

Literals == Nested \cup SmallMaps(Nested) \cup PairMaps(Nested, Leaves)

\* The literal of a tree, sp written after every separator.
RECURSIVE Render(_, _)
RECURSIVE RenderEntries(_, _, _)
RECURSIVE RenderItems(_, _, _)
RenderEntries(es, i, sp) ==
  IF i > Len(es) THEN ""
  ELSE (IF i > 1 THEN ";" \o sp ELSE "")
       \o es[i].key \o "=" \o Render(es[i].val, sp) \o RenderEntries(es, i + 1, sp)

RenderItems(l, i, sp) ==
  IF i > Len(l) THEN ""
  ELSE (IF i > 1 THEN "," \o sp ELSE "")
       \o Render(l[i], sp) \o RenderItems(l, i + 1, sp)

Render(t, sp) ==
  IF t.kind = "str" THEN t.str
  ELSE IF t.kind = "dict" THEN "{" \o RenderEntries(t.items, 1, sp) \o "}"
  ELSE "[" \o RenderItems(t.items, 1, sp) \o "]"

ParseJavaMap(texts) ==
  /\ resp = NoResp
  /\ \E s \in texts :
    /\ resp' = [op |-> "parse_java_map", s |-> s, ret |-> parse_java_map(s),
                tree |-> <<>>]
    /\ UNCHANGED <<graph, cleared, reload>>

ParseLiteral(trees) ==
  /\ resp = NoResp
  /\ \E t \in trees, sp \in {"", " "} :
    /\ resp' = [op |-> "parse_java_map", s |-> Render(t, sp),
                ret |-> parse_java_map(Render(t, sp)), tree |-> <<t>>]
    /\ UNCHANGED <<graph, cleared, reload>>

ParseString(texts) ==
  /\ resp = NoResp
  /\ \E s \in texts :
    /\ resp' = [op |-> "parse_string", s |-> s, ret |-> parse_string(s, 0, 1)]
    /\ UNCHANGED <<graph, cleared, reload>>

NextDecode ==
  \/ ParseJavaMap(DecodeTexts)
  \/ ParseLiteral(Literals)
  \/ ParseString(RunTexts)
  \/ Return

SpecDecode == Init /\ [][NextDecode]_vars

(***************************************************************************)
(* The rows fed to the ingestion.                                          *)
(***************************************************************************)
Person(jmeno, prijmeni) ==
  "osoba={jmeno=" \o jmeno \o ";prijmeni=" \o prijmeni \o ";narozDatum=1970-01-01}"

Member(osoba, rest) ==
  "{udajTyp={kod=STATUTARNI_ORGAN_CLEN};" \o osoba \o rest \o "}"

StatutoryBody(members) ==
  "{udajTyp={kod=STATUTARNI_ORGAN};podudaje=[" \o members \o "]}"

Shareholders(members) ==
  "{udajTyp={kod=SPOLECNIK};podudaje=[" \o members \o "]}"

PersonShareholder(osoba) == "{udajTyp={kod=SPOLECNIK_OSOBA};" \o osoba \o "}"

CompanyShareholder(ico) ==
  "{udajTyp={kod=SPOLECNIK_PRAVNICKA_OSOBA};pravnickaOsoba={ico=" \o ico \o "}}"

Row(ico, nazev, udaje) ==
  py_dict(<<Entry("ico", py_str(ico)), Entry("nazev", py_str(nazev)),
            Entry("udaje", py_str(udaje))>>)

RowAlfa ==
  Row("1", "Alfa",
      "[" \o StatutoryBody(Member(Person("Jan", "Novak"), ";funkce=Jednatel")) \o "]")

\* The identifier of RowAlfa again, with other attributes and another person.
RowAlfaAgain ==
  Row(" 1", "Alfa II",
      "[" \o StatutoryBody(Member(Person("Eva", "Svoboda"), "")) \o "]")

RowBeta ==
  Row("2", "",
      "[" \o StatutoryBody(Member(Person("Jan", "Novak"), ";vymazDatum=2020-01-01"))
          \o ", "
          \o Shareholders(CompanyShareholder("1") \o ", "
                            \o PersonShareholder(Person("Eva", "Svoboda")))
          \o "]")

RowGama == Row("3", "Gama", "")

\* No identifier.
RowBlank ==
  Row("  ", "Nikdo",
      "[" \o StatutoryBody(Member(Person("Petr", "Cerny"), "")) \o "]")

\* A line shorter than the header: the missing cells are None.
RowShort ==
  py_dict(<<Entry("ico", py_str("3")), Entry("nazev", PyNone), Entry("udaje", PyNone)>>)

\* A member whose osoba is a text, not a Map.
RowBadPerson ==
  Row("3", "Gama", "[" \o StatutoryBody(Member("osoba=x", "")) \o "]")

\* The rows of the files.
Rows == {RowAlfa, RowAlfaAgain, RowBeta, RowBlank, RowBadPerson}

\* A line of a file that has no ico column.
RowNoIco == py_dict(<<Entry("nazev", py_str("Nikdo")), Entry("udaje", py_str(""))>>)

\* The officer records of the claims on officers: with a surname, with an
\* empty or blank one, with an empty osoba; the role absent, a text, a Map
\* with a name, a Map without one, empty; the deletion date absent, given,
\* empty.
OfficerPersons ==
  {Person("Jan", "Novak"), Person("Jan", ""), Person("", " "), "osoba={}"}

OfficerRoles ==
  {"", ";funkce=Jednatel", ";funkce={nazev=Predseda}", ";funkce={kod=1}", ";funkce="}

OfficerDeletions == {"", ";vymazDatum=2020-01-01", ";vymazDatum="}

OfficerTexts ==
  {Member(osoba, funkce \o vymazDatum) :
     osoba \in OfficerPersons, funkce \in OfficerRoles, vymazDatum \in OfficerDeletions}

\* Rows of one officer record each, and one row of two.
OfficerRows ==
  {Row("7", "Delta", "[" \o StatutoryBody(member) \o "]") : member \in OfficerTexts}
    \cup {Row("7", "Delta",
              "[" \o StatutoryBody(Member(Person("Jan", ""), ";funkce=Jednatel")
                                     \o ", "
                                     \o Member(Person("Eva", "Svoboda"),
                                               ";funkce={nazev=Predseda};vymazDatum=2020-01-01"))
                  \o "]")}

\* A registered-seat record of the udaje literal, entered on the date zapis.
Seat(obec, zapis, rest) ==
  "{udajTyp={kod=SIDLO};zapisDatum=" \o zapis \o ";adresa={obec=" \o obec \o "}"
    \o rest \o "}"

\* A row with the flat city column.
CityRow(udaje, flat) ==
  py_dict(<<Entry("ico", py_str("5")), Entry("nazev", py_str("Epsilon")),
            Entry("udaje", py_str(udaje)), Entry("sidlo_nazevObce", py_str(flat))>>)

\* A row with two seats in force, the older one first.
RowTwoSeats ==
  CityRow("[" \o Seat("Brno", "2001-05-01", "") \o ", "
              \o Seat("Praha", "2020-03-01", "") \o "]", "Olomouc")

\* The rows of the claims on the city: seats in force and deleted, in both
\* orders of date, a seat without a city, no seat, no flat column.
CityRows ==
  {RowTwoSeats,
   CityRow("[" \o Seat("Praha", "2020-03-01", "") \o ", "
               \o Seat("Brno", "2001-05-01", "") \o "]", "Olomouc"),
   CityRow("[" \o Seat("Brno", "2001-05-01", ";vymazDatum=2020-03-01") \o ", "
               \o Seat("Praha", "2020-03-01", "") \o "]", "Olomouc"),
   CityRow("[" \o Seat("Brno", "2001-05-01", ";vymazDatum=2020-03-01") \o "]", "Olomouc"),
   CityRow("[" \o Seat("Brno", "2001-05-01", ";vymazDatum=2020-03-01") \o "]", " "),
   CityRow("[{udajTyp={kod=SIDLO};zapisDatum=2020-03-01;adresa={ulice=Dlouha}}]", "Olomouc"),
   CityRow("[" \o Seat("Praha", "2020-03-01", ";vymazDatum=") \o "]", ""),
   CityRow("", "Olomouc"),
   CityRow("", "")}

\* The rows extracted one by one.
ExtractRows == Rows \cup {RowGama, RowShort, RowNoIco} \cup OfficerRows \cup CityRows

\* The files of at most MaxRows rows.
Files == UNION {[1..n -> Rows] : n \in 0..MaxRows}

ParseOrRow(rows) ==
  /\ resp = NoResp
  /\ \E row \in rows :
    /\ resp' = [op |-> "parse_or_row", row |-> row, ret |-> parse_or_row(row)]
    /\ UNCHANGED <<graph, cleared, reload>>

\* parse_or_csv called: the locals are set up.
ParseOrCsv(files, limits) ==
  /\ resp = NoResp
  /\ \E rows \in files, max_rows \in limits :
    /\ resp' = [op |-> "parse_or_csv", pc |-> "loop",
                f |-> parse_or_csv_start(rows, max_rows), before |-> <<>>,
                ret |-> <<>>]
    /\ UNCHANGED <<graph, cleared, reload>>

\* One pass of the loop; before keeps the locals as they were.
ParseOrCsvRow ==
  /\ resp.op = "parse_or_csv"
  /\ resp.pc = "loop"
  /\ parse_or_csv_more(resp.f)
  /\ resp' = [resp EXCEPT !.f = parse_or_csv_row(resp.f), !.before = <<resp.f>>]
  /\ UNCHANGED <<graph, cleared, reload>>

\* The loop is left and the result built.
ParseOrCsvEnd ==
  /\ resp.op = "parse_or_csv"
  /\ resp.pc = "loop"
  /\ ~parse_or_csv_more(resp.f)
  /\ resp' = [resp EXCEPT !.pc = "done", !.ret = <<parse_or_csv_result(resp.f)>>]
  /\ UNCHANGED <<graph, cleared, reload>>

IngestReturn ==
  /\ \/ resp.op = "parse_or_row"
     \/ resp.op = "parse_or_csv" /\ resp.pc = "done"
  /\ resp' = NoResp
  /\ UNCHANGED <<graph, cleared, reload>>

NextIngest ==
  \/ ParseOrRow(ExtractRows)
  \/ ParseOrCsv(Files, 0..MaxLimit)
  \/ ParseOrCsvRow
  \/ ParseOrCsvEnd
  \/ IngestReturn

SpecIngest == Init /\ [][NextIngest]_vars

(***************************************************************************)
(* What the claims speak of, stated on the graph itself.                   *)
(***************************************************************************)
IsEntity(g, n) == n \in DOMAIN g.node

IsRelationship(g, u, v) ==
  /\ u \in DOMAIN g.adj
  /\ v \in DOMAIN g.adj[u]

Distinct(p) == \A i \in 1..Len(p), j \in 1..Len(p) : i /= j => p[i] /= p[j]

Linked(g, p) ==
  /\ \A i \in 1..Len(p) : IsEntity(g, p[i])
  /\ \A i \in 1..(Len(p) - 1) : IsRelationship(g, p[i], p[i + 1])

IsPath(g, p) == Len(p) >= 1 /\ Distinct(p) /\ Linked(g, p)

Range(p) == {p[i] : i \in 1..Len(p)}

\* The simple paths that extend p to t.
RECURSIVE Extensions(_, _, _)
Extensions(g, p, t) ==
  IF p[Len(p)] = t THEN {p}
  ELSE UNION {Extensions(g, Append(p, w), t) :
                w \in {x \in DOMAIN g.node :
                         IsRelationship(g, p[Len(p)], x)} \ Range(p)}

SimplePaths(g, s, t) ==
  IF IsEntity(g, s) /\ IsEntity(g, t) THEN Extensions(g, <<s>>, t) ELSE {}

Min(a, b) == IF a <= b THEN a ELSE b

\* C1: shortest_path(s, t) never raises; when s and t are entities and
\* connected it returns a path from s to t with the fewest edges of all s-t
\* paths (a shortest walk repeats no node, so the simple paths decide the
\* minimum), which for s = t is <<s>>, self-loop or not; when an endpoint is
\* absent or no path exists it returns none.
C1_ShortestPath ==
  resp.op = "find_shortest_path" =>
    LET s == resp.source
        t == resp.target
        all == SimplePaths(graph, s, t)
    IN  /\ resp.ret.kind /= "raise"
        /\ all /= {} =>
             /\ resp.ret.kind = "value"
             /\ resp.ret.val \in all
             /\ \A q \in all : Len(resp.ret.val) <= Len(q)
        /\ (s = t /\ IsEntity(graph, s)) => resp.ret = Value(<<s>>)
        /\ (~IsEntity(graph, s) \/ ~IsEntity(graph, t) \/ all = {}) =>
             resp.ret = None

C1_Witness ==
  /\ resp.op = "find_shortest_path"
  /\ resp.ret.kind = "value"
  /\ Len(resp.ret.val) = 3
  /\ IsRelationship(graph, resp.source, resp.source)
  /\ \E q \in SimplePaths(graph, resp.source, resp.target) : Len(q) = 4

\* C2: for k >= 1, k_shortest_paths(s, t, k) returns exactly min(k, N)
\* pairwise distinct simple s-t paths in non-decreasing order of length, N
\* being the number of simple s-t paths; no simple path left out is shorter
\* than one returned; the result is empty when an endpoint is absent or no
\* path exists.
C2_KShortestPaths ==
  (resp.op = "find_top_k_paths" /\ resp.k >= 1) =>
    LET all == SimplePaths(graph, resp.source, resp.target)
        r == resp.ret.val
    IN  /\ resp.ret.kind = "value"
        /\ Len(r) = Min(resp.k, Cardinality(all))
        /\ \A i \in 1..Len(r) : r[i] \in all
        /\ Distinct(r)
        /\ \A i \in 1..(Len(r) - 1) : Len(r[i]) <= Len(r[i + 1])
        /\ \A q \in all \ Range(r) : \A i \in 1..Len(r) : Len(r[i]) <= Len(q)
        /\ (~IsEntity(graph, resp.source) \/ ~IsEntity(graph, resp.target)
              \/ all = {}) => r = <<>>

C2_Witness ==
  /\ resp.op = "find_top_k_paths"
  /\ resp.k = 3
  /\ Cardinality(SimplePaths(graph, resp.source, resp.target)) = 2
  /\ Len(resp.ret.val) = 2
  /\ Len(resp.ret.val[1]) < Len(resp.ret.val[2])

\* The legs of a waypoint list, as shortest_path answers them, and their
\* concatenation with the first node of every leg after the first dropped.
Leg(g, w, i) == find_shortest_path(g, w[i], w[i + 1])

RECURSIVE Stitched(_, _, _)
Stitched(g, w, i) ==
  IF i = 1 THEN Leg(g, w, 1).val
  ELSE Stitched(g, w, i - 1) \o Tail(Leg(g, w, i).val)

\* C3: for n >= 2 waypoints, multi_waypoint_path returns shortest_path(w1, w2)
\* followed by each later leg without its first node; when some leg has no
\* path or an unknown endpoint the result is none, never a partial path.
C3_MultiWaypoint ==
  (resp.op = "find_multi_point_path" /\ Len(resp.waypoints) >= 2) =>
    LET w == resp.waypoints
        legs == 1..(Len(w) - 1)
    IN  IF \A i \in legs : Leg(graph, w, i).kind = "value"
        THEN resp.ret = Value(Stitched(graph, w, Len(w) - 1))
        ELSE resp.ret = None

C3_Witness ==
  /\ resp.op = "find_multi_point_path"
  /\ Len(resp.waypoints) = 3
  /\ resp.ret.kind = "value"
  /\ Len(resp.ret.val) = 4

\* C4 as claimed: every path returned by the three queries is a non-empty
\* sequence of pairwise distinct entities, consecutive ones related.
C4_AllPathsDistinct ==
  /\ (resp.op = "find_shortest_path" /\ resp.ret.kind = "value") =>
       IsPath(graph, resp.ret.val)
  /\ (resp.op = "find_top_k_paths" /\ resp.ret.kind = "value") =>
       \A i \in 1..Len(resp.ret.val) : IsPath(graph, resp.ret.val[i])
  /\ (resp.op = "find_multi_point_path" /\ resp.ret.kind = "value") =>
       IsPath(graph, resp.ret.val)

\* C4 as amended: the paths of shortest_path and k_shortest_paths are
\* non-empty, pairwise distinct and linked; a multi_waypoint_path is non-empty,
\* made of entities, every consecutive pair a relationship, from the first
\* waypoint to the last, and may visit a node more than once.
C4_PathsLinked ==
  /\ (resp.op = "find_shortest_path" /\ resp.ret.kind = "value") =>
       IsPath(graph, resp.ret.val)
  /\ (resp.op = "find_top_k_paths" /\ resp.ret.kind = "value") =>
       \A i \in 1..Len(resp.ret.val) : IsPath(graph, resp.ret.val[i])
  /\ (resp.op = "find_multi_point_path" /\ resp.ret.kind = "value") =>
       LET p == resp.ret.val
           w == resp.waypoints
       IN  /\ Len(p) >= 1
           /\ Linked(graph, p)
           /\ p[1] = w[1]
           /\ p[Len(p)] = w[Len(w)]

C4_Witness ==
  /\ resp.op = "find_multi_point_path"
  /\ resp.ret.kind = "value"
  /\ Len(resp.ret.val) = 3
  /\ resp.ret.val[1] = resp.ret.val[3]
  /\ ~IsRelationship(graph, resp.ret.val[1], resp.ret.val[1])

\* C8: after clear(), until something is inserted, the graph has no entity
\* and no relationship: no identifier is an entity, those that clear()
\* dropped included, shortest_path and multi_waypoint_path return none and
\* k_shortest_paths returns the empty sequence.
C8_ClearedIsEmpty ==
  cleared.on =>
    /\ \A n \in Ids \cup cleared.dropped : ~has_entity(graph, n)
    /\ DOMAIN graph.adj = {}
    /\ number_of_edges(graph) = 0
    /\ resp.op \in {"find_shortest_path", "find_multi_point_path"} =>
         resp.ret = None
    /\ resp.op = "find_top_k_paths" => resp.ret = Value(<<>>)

C8_Witness ==
  /\ cleared.on
  /\ Cardinality(cleared.dropped) >= 2
  /\ resp.op = "find_top_k_paths"
  /\ resp.source \in cleared.dropped
  /\ resp.target \in cleared.dropped
  /\ resp.k >= 1

\* C9: the graph holds at most one relationship per unordered pair: (u, v)
\* and (v, u) are adjacent in both directions with the same attributes; an
\* insertion for a pair, in either order, leaves exactly the type, active
\* flag and metadata it was given, and the edge count grows by one for a new
\* pair and not at all for a pair already related.
C9_OneRelationshipPerPair ==
  /\ \A u \in DOMAIN graph.adj : \A v \in DOMAIN graph.adj[u] :
       /\ IsRelationship(graph, v, u)
       /\ u \in neighbors(graph, v)
       /\ graph.adj[v][u] = graph.adj[u][v]
  /\ resp.op = "add_relationship" =>
       LET md == IF resp.metadata.given THEN resp.metadata.dict ELSE EmptyDict
           given == [type     |-> resp.type,
                     active   |-> IF "active" \in DOMAIN md THEN md.active ELSE TRUE,
                     metadata |-> md]
       IN  /\ IsRelationship(graph, resp.u, resp.v)
           /\ graph.adj[resp.u][resp.v] = given
           /\ graph.adj[resp.v][resp.u] = given
           /\ number_of_edges(graph) =
                resp.edges_before + (IF resp.old = <<>> THEN 1 ELSE 0)

C9_Witness ==
  /\ resp.op = "add_relationship"
  /\ resp.u /= resp.v
  /\ resp.old /= <<>>
  /\ resp.old[1].type /= resp.type
  /\ resp.old[1].active /= graph.adj[resp.v][resp.u].active
  /\ number_of_edges(graph) = 2

\* C10: both endpoints of every relationship are entities; an endpoint that
\* was unknown when its relationship was inserted is a placeholder that reads
\* with the defaults; upsert_entity writes the attributes of its identifier
\* and keeps the relationships the identifier had.
C10_EndpointsAreEntities ==
  /\ \A u \in DOMAIN graph.adj : \A v \in DOMAIN graph.adj[u] :
       IsEntity(graph, u) /\ IsEntity(graph, v)
  /\ resp.op = "add_relationship" =>
       \A n \in resp.unknown :
         /\ IsEntity(graph, n)
         /\ export_node(graph, n, {}) =
              [id |-> n, label |-> n, type |-> "unknown", in_path |-> FALSE,
               insolvent |-> FALSE, country |-> "CZ", city |-> ""]
  /\ resp.op = "add_entity" =>
       /\ IsEntity(graph, resp.id)
       /\ graph.node[resp.id].data = resp.data
       /\ export_node(graph, resp.id, {}).label = resp.data.name
       /\ export_node(graph, resp.id, {}).insolvent =
            ("insolvent" \in DOMAIN resp.data /\ resp.data.insolvent)
       /\ graph.adj[resp.id] = resp.adj_before
       /\ \A v \in DOMAIN resp.adj_before : IsRelationship(graph, v, resp.id)

C10_Witness ==
  /\ resp.op = "add_entity"
  /\ resp.data = InsolventData
  /\ Cardinality(DOMAIN resp.adj_before) = 2
  /\ \E v \in DOMAIN graph.adj[resp.id] : graph.node[v] = EmptyDict

\* What the exclusion predicates speak of.
Insolvent(g, n) == "insolvent" \in DOMAIN g.node[n] /\ g.node[n].insolvent

Foreign(g, n) == "country" \in DOMAIN g.node[n] /\ g.node[n].country /= "CZ"

Inactive(g, u, v) == "active" \in DOMAIN g.adj[u][v] /\ ~g.adj[u][v].active

\* A path is kept under the flags of a request.
Kept(g, p, data) ==
  /\ data.exclude_insolvent => \A i \in 1..Len(p) : ~Insolvent(g, p[i])
  /\ data.exclude_foreign => \A i \in 1..Len(p) : ~Foreign(g, p[i])
  /\ data.exclude_inactive =>
       \A i \in 1..(Len(p) - 1) : ~Inactive(g, p[i], p[i + 1])

\* The candidates of a handled request: the paths its search returned.
Candidates ==
  IF resp.op = "top_paths"
  THEN find_top_k_paths(graph, resp.data.source, resp.data.target, resp.data.k).val
  ELSE LET path == find_multi_point_path(graph, resp.data.waypoints)
       IN  IF path.kind = "value" THEN <<path.val>> ELSE <<>>

Handled == resp.op \in {"top_paths", "multi_path"} /\ resp.body.status = 200

\* The same request with the insolvency predicate switched off.
InsolvencyOff ==
  IF resp.op = "top_paths"
  THEN find_top_paths(graph, [resp.data EXCEPT !.exclude_insolvent = FALSE])
  ELSE route_multi_path(graph, [resp.data EXCEPT !.exclude_insolvent = FALSE])

\* C5: in the top-paths and multi-waypoint handlers a candidate is in the
\* result iff no node of it is insolvent (exclude_insolvent on), no node of
\* it is foreign (exclude_foreign on) and no edge of it is inactive
\* (exclude_inactive on), the kept candidates staying in their order; a
\* candidate with an insolvent node is absent with the insolvency predicate
\* on and, for the same request with it off, present iff the other two
\* predicates keep it.
C5_FilterKeepsExactly ==
  Handled =>
    LET c == Candidates
        kept == {i \in 1..Len(c) : Kept(graph, c[i], resp.data)}
        off == [resp.data EXCEPT !.exclude_insolvent = FALSE]
    IN  /\ \A i \in 1..Len(c) :
             (i \in kept) <=> (c[i] \in Range(resp.body.paths))
        /\ Range(resp.body.paths) \subseteq Range(c)
        /\ Len(resp.body.paths) = Cardinality(kept)
        /\ \A i \in 1..Len(resp.body.paths), j \in 1..Len(resp.body.paths) :
             i < j => \E m \in 1..Len(c), n \in 1..Len(c) :
                        m < n /\ c[m] = resp.body.paths[i] /\ c[n] = resp.body.paths[j]
        /\ \A i \in 1..Len(c) :
             (\E m \in 1..Len(c[i]) : Insolvent(graph, c[i][m])) =>
               /\ resp.data.exclude_insolvent => c[i] \notin Range(resp.body.paths)
               /\ (c[i] \in Range(InsolvencyOff.paths)) <=> Kept(graph, c[i], off)

C5_Witness ==
  /\ resp.op = "top_paths"
  /\ resp.data.exclude_insolvent
  /\ ~resp.data.exclude_foreign
  /\ Len(Candidates) = 2
  /\ Len(resp.body.paths) = 1
  /\ Len(InsolvencyOff.paths) = 2
  /\ \E i \in 1..Len(resp.body.paths[1]) : Foreign(graph, resp.body.paths[1][i])

\* C6: the handlers answer "every candidate was excluded by the filters"
\* with a message of its own, and only when the search found a path: an
\* unknown endpoint or a disconnected pair gets the not-found message, a
\* non-empty candidate list of which nothing is kept gets the filter message,
\* and the two differ.
C6_FilterEmptyIsDistinct ==
  /\ MsgNoMatch /= MsgNoPaths
  /\ MsgFilteredOut /= MsgNoMultiPath
  /\ (resp.op = "top_paths" /\ resp.body.status = 200) =>
       LET all == SimplePaths(graph, resp.data.source, resp.data.target)
           c == Candidates
       IN  /\ all = {} => (~resp.body.found /\ resp.body.message = MsgNoPaths)
           /\ resp.body.message = MsgNoMatch =>
                (all /= {} /\ c /= <<>> /\ ~resp.body.found)
           /\ (c /= <<>> /\ \A i \in 1..Len(c) : ~Kept(graph, c[i], resp.data)) =>
                (~resp.body.found /\ resp.body.message = MsgNoMatch)
  /\ (resp.op = "multi_path" /\ resp.body.status = 200) =>
       LET w == resp.data.waypoints
           legs_ok == \A i \in 1..(Len(w) - 1) : SimplePaths(graph, w[i], w[i + 1]) /= {}
           c == Candidates
       IN  /\ ~legs_ok => (~resp.body.found /\ resp.body.message = MsgNoMultiPath)
           /\ resp.body.message = MsgFilteredOut =>
                (legs_ok /\ c /= <<>> /\ ~resp.body.found)
           /\ (c /= <<>> /\ ~Kept(graph, c[1], resp.data)) =>
                (~resp.body.found /\ resp.body.message = MsgFilteredOut)

C6_Witness ==
  /\ resp.op = "top_paths"
  /\ resp.body.message = MsgNoMatch
  /\ Len(Candidates) = 2
  /\ resp.data.exclude_inactive
  /\ ~resp.data.exclude_insolvent
  /\ ~resp.data.exclude_foreign

\* C7: while a reload runs beside the queries, every query reads a complete
\* graph: the one from before the reload or the one the reload loads, never
\* a cleared or partly loaded one.
C7_QueriesSeeCompleteGraph ==
  resp.op = "shortest_path_request" => resp.seen \in resp.complete

\* C11: the stored attributes of a relationship tell which identifier was
\* given as the source and which as the target: inserting the same pair the
\* other way round, with the same type and metadata, would store something
\* different.
C11_OrderIsRecoverable ==
  (resp.op = "add_relationship" /\ resp.u /= resp.v) =>
    add_relationship(graph, resp.v, resp.u, resp.type, resp.metadata) /= graph

\* C12: stats() returns the number of entities, the number of unordered
\* related pairs, and a flag that is true exactly when there is an entity
\* and every entity reaches every other over the relationships; the flag is
\* false for the empty graph.
C12_Stats ==
  resp.op = "get_graph_stats" =>
    LET nodes == {n \in Ids : IsEntity(graph, n)}
        pairs == {{u, v} : u \in nodes, v \in nodes}
        edges == {e \in pairs : \E u \in e, v \in e :
                                   e = {u, v} /\ IsRelationship(graph, u, v)}
    IN  /\ resp.ret.total_nodes = Cardinality(nodes)
        /\ resp.ret.total_edges = Cardinality(edges)
        /\ resp.ret.is_connected =
             (nodes /= {} /\ \A u \in nodes, v \in nodes :
                               SimplePaths(graph, u, v) /= {})
        /\ nodes = {} => ~resp.ret.is_connected

C12_Witness ==
  /\ resp.op = "get_graph_stats"
  /\ resp.ret.is_connected
  /\ resp.ret.total_nodes = 3
  /\ resp.ret.total_edges = 2

(***************************************************************************)
(* What the decoder's claims speak of, stated on the text itself.          *)
(***************************************************************************)
Openers == {"{", "["}

Closers == {"}", "]"}

CloserOf(c) == IF c = "{" THEN "}" ELSE "]"

\* Every closer of s from index i on closes the opener last left open
\* (expected holds the closers still due, innermost first), and none stays
\* open at the end.
RECURSIVE BracketsMatch(_, _, _)
BracketsMatch(s, i, expected) ==
  IF i > Len(s) THEN expected = ""
  ELSE LET c == SubSeq(s, i, i)
       IN  IF c \in Openers THEN BracketsMatch(s, i + 1, CloserOf(c) \o expected)
           ELSE IF c \in Closers
           THEN /\ Len(expected) > 0
                /\ SubSeq(expected, 1, 1) = c
                /\ BracketsMatch(s, i + 1, SubSeq(expected, 2, Len(expected)))
           ELSE BracketsMatch(s, i + 1, expected)

\* A Map or List whose brackets do not pair up.
Malformed(s) ==
  /\ Len(s) > 0
  /\ SubSeq(s, 1, 1) \in Openers
  /\ ~BracketsMatch(s, 1, "")

\* The nesting depth of the run at index i (counted from 0) of s.
LocalDepth(s, i) ==
  Cardinality({j \in 0..(i - 1) : At(s, j) \in Openers})
    - Cardinality({j \in 0..(i - 1) : At(s, j) \in Closers})

\* The first character of s at index i or later that is no whitespace.
NextNonWhitespace(s, i) ==
  LET rest == {j \in i..(Len(s) - 1) : At(s, j) \notin Whitespace}
  IN  IF rest = {} THEN ""
      ELSE At(s, CHOOSE j \in rest : \A m \in rest : j <= m)

IdentifierChar(c) == c \in Letters \cup Digits \cup {"_"}

\* After the index i of s: optional whitespace, an identifier, then '='.
FollowedByKey(s, i) ==
  \E j \in (i + 1)..(Len(s) - 1), k \in (i + 2)..(Len(s) - 1) :
    /\ j < k
    /\ \A m \in (i + 1)..(j - 1) : At(s, m) \in Whitespace
    /\ \A m \in j..(k - 1) : IdentifierChar(At(s, m))
    /\ At(s, k) = "="

\* C13: decode is total: for every text, malformed or not, it returns a
\* value (a text, a mapping or a sequence) and never raises.
C13_DecodeIsTotal ==
  resp.op = "parse_java_map" => resp.ret.kind \in {"str", "dict", "list"}

C13_Witness ==
  /\ resp.op = "parse_java_map"
  /\ resp.s = DeepText
  /\ Malformed(resp.s)
  /\ resp.ret = py_str(resp.s)

\* C14: for a malformed literal (a Map or List never closed, or closed by a
\* closer of the wrong kind) decode returns the input text unchanged, as a
\* text value.
C14_MalformedGivesText ==
  (resp.op = "parse_java_map" /\ Malformed(resp.s)) => resp.ret = py_str(resp.s)

\* C15: the literal written out from a tree of Maps with identifier keys,
\* Lists of Maps and separator-free texts decodes to that tree: the same
\* keys in the same order, the same elements in the same order; {} and []
\* give the empty mapping and the empty sequence.
C15_LiteralsDecodeToTheirTree ==
  resp.op = "parse_java_map" =>
    /\ resp.tree /= <<>> => resp.ret = resp.tree[1]
    /\ resp.s = "{}" => resp.ret = py_dict(<<>>)
    /\ resp.s = "[]" => resp.ret = py_list(<<>>)
    /\ resp.s = "{a=1;b=2}" =>
         resp.ret = py_dict(<<Entry("a", py_str("1")), Entry("b", py_str("2"))>>)
    /\ resp.s = "[{x=1},{x=2}]" =>
         resp.ret = py_list(<<py_dict(<<Entry("x", py_str("1"))>>),
                              py_dict(<<Entry("x", py_str("2"))>>)>>)

C15_Witness ==
  /\ resp.op = "parse_java_map"
  /\ resp.tree /= <<>>
  /\ resp.ret.kind = "dict"
  /\ Len(resp.ret.items) = 2
  /\ resp.ret.items[1].val.kind = "list"
  /\ Len(resp.ret.items[1].val.items) = 2
  /\ resp.ret.items[1].val.items[2].items /= <<>>

\* C16: in a Text run, a ',' at local depth 0 ends the run exactly when the
\* next character that is no whitespace is '{', '[' or ']'; any other comma
\* stays in the text, as in {note=Vyroba, obchod a sluzby;city=Praha}.
C16_CommaRule ==
  /\ resp.op = "parse_string" =>
       \A i \in 0..(Len(resp.s) - 1) :
         (i <= resp.ret.pos /\ At(resp.s, i) = "," /\ LocalDepth(resp.s, i) = 0) =>
           (resp.ret.pos = i <=> NextNonWhitespace(resp.s, i + 1) \in {"{", "[", "]"})
  /\ (resp.op = "parse_java_map"
        /\ resp.s = "{note=Vyroba, obchod a sluzby;city=Praha}") =>
       resp.ret = py_dict(<<Entry("note", py_str("Vyroba, obchod a sluzby")),
                            Entry("city", py_str("Praha"))>>)

C16_Witness ==
  /\ resp.op = "parse_string"
  /\ \E i \in 0..(Len(resp.s) - 1), j \in 0..(Len(resp.s) - 1) :
       /\ i < j
       /\ At(resp.s, i) = ","
       /\ At(resp.s, j) = ","
       /\ resp.ret.pos = j

\* C17: in a Text run, a ';' at local depth 0 ends the run exactly when it is
\* followed, after optional whitespace, by a non-empty run of letters, digits
\* and underscores and then '='; any other semicolon stays in the text.
C17_SemicolonRule ==
  resp.op = "parse_string" =>
    \A i \in 0..(Len(resp.s) - 1) :
      (i <= resp.ret.pos /\ At(resp.s, i) = ";" /\ LocalDepth(resp.s, i) = 0) =>
        (resp.ret.pos = i <=> FollowedByKey(resp.s, i))

C17_Witness ==
  /\ resp.op = "parse_string"
  /\ \E i \in 0..(Len(resp.s) - 1), j \in 0..(Len(resp.s) - 1) :
       /\ i < j
       /\ At(resp.s, i) = ";"
       /\ At(resp.s, j) = ";"
       /\ resp.ret.pos = j

(***************************************************************************)
(* What the ingestion's claims speak of.                                   *)
(***************************************************************************)
\* The row has no identifier: the cell is missing or blank.
NoIdentifier(row) ==
  LET cell == py_get(row, "ico", py_str(""))
  IN  cell.kind = "str" /\ \A i \in 0..(Len(cell.str) - 1) : At(cell.str, i) \in Whitespace

\* What extraction makes of each row fed.
Extraction == [row \in Rows |-> parse_or_row(row)]

ExtractionFails(row) == Extraction[row].kind = "raise"

\* The row yields a company.
Extracts(row) == ~ExtractionFails(row) /\ ~NoIdentifier(row)

ExtractedCompany(row) == Extraction[row].val[1]

CompanyIds(companies) == {companies[i].id : i \in 1..Len(companies)}

\* The entities of an output that are companies.
CompaniesOf(entities) == SelectSeq(entities, LAMBDA e : e.type = "company")

\* The locals before and after the pass of the loop last made.
Passed == resp.op = "parse_or_csv" /\ resp.before /= <<>>

SameAccumulated(a, b) ==
  /\ a.companies = b.companies
  /\ a.relationships = b.relationships
  /\ a.all_persons = b.all_persons
  /\ a.company_icos = b.company_icos
  /\ a.parsed_count = b.parsed_count

\* rows with the row at j fed twice in a row.
FedTwice(rows, j) == SubSeq(rows, 1, j) \o SubSeq(rows, j, Len(rows))

\* C18: the output holds each company identifier once: a row whose
\* identifier was accepted before changes nothing, every company kept is the
\* extraction of the first row that yields its identifier, and feeding any
\* row twice gives the output of feeding it once.
C18_OneCompanyPerIdentifier ==
  resp.op = "parse_or_csv" =>
    LET f == resp.f
    IN  /\ \A a \in 1..Len(f.companies), b \in 1..Len(f.companies) :
             a /= b => f.companies[a].id /= f.companies[b].id
        /\ \A a \in 1..Len(f.companies) :
             \E j \in 1..(f.i - 1) :
               /\ Extracts(f.rows[j])
               /\ ExtractedCompany(f.rows[j]) = f.companies[a]
               /\ \A h \in 1..(j - 1) :
                    Extracts(f.rows[h]) =>
                      ExtractedCompany(f.rows[h]).id /= f.companies[a].id
        /\ Passed =>
             LET b == resp.before[1]
                 row == b.rows[b.i]
             IN  (Extracts(row) /\ ExtractedCompany(row).id \in CompanyIds(b.companies))
                   => (SameAccumulated(f, b) /\ f.skipped = b.skipped)
        /\ resp.pc = "done" =>
             /\ \A a \in 1..Len(CompaniesOf(resp.ret[1].companies)),
                   b \in 1..Len(CompaniesOf(resp.ret[1].companies)) :
                  a /= b => CompaniesOf(resp.ret[1].companies)[a].id
                              /= CompaniesOf(resp.ret[1].companies)[b].id
             /\ \A j \in 1..Len(f.rows) :
                  parse_or_csv(FedTwice(f.rows, j), f.max_rows) = resp.ret[1]

C18_Witness ==
  /\ resp.op = "parse_or_csv"
  /\ resp.pc = "done"
  /\ resp.f.rows = <<RowAlfa, RowAlfaAgain, RowBeta>>
  /\ resp.f.max_rows = 2
  /\ Len(CompaniesOf(resp.ret[1].companies)) = 2
  /\ Len(resp.ret[1].relationships) = 4

\* C19: rows are taken in input order, one per pass; only an accepted row
\* counts towards the limit; a pass is made only below the limit, so the
\* output never holds more than limit companies and is the output of the
\* rows read so far: no row after the one that reached the limit is read.
C19_StopsAtLimit ==
  resp.op = "parse_or_csv" =>
    LET f == resp.f
    IN  /\ Len(f.companies) <= f.max_rows
        /\ f.parsed_count = Len(f.companies)
        /\ Passed =>
             LET b == resp.before[1]
                 row == b.rows[b.i]
                 accepted == /\ Extracts(row)
                             /\ ExtractedCompany(row).id \notin CompanyIds(b.companies)
             IN  /\ b.parsed_count < b.max_rows
                 /\ f.i = b.i + 1
                 /\ f.parsed_count = b.parsed_count + (IF accepted THEN 1 ELSE 0)
                 /\ f.companies = IF accepted
                                  THEN Append(b.companies, ExtractedCompany(row))
                                  ELSE b.companies
        /\ resp.pc = "done" =>
             /\ Len(CompaniesOf(resp.ret[1].companies)) <= f.max_rows
             /\ f.i <= Len(f.rows) => f.parsed_count = f.max_rows
             /\ resp.ret[1] = parse_or_csv(SubSeq(f.rows, 1, f.i - 1), f.max_rows)

C19_Witness ==
  /\ resp.op = "parse_or_csv"
  /\ resp.pc = "done"
  /\ resp.f.rows = <<RowBlank, RowAlfa, RowBeta>>
  /\ resp.f.max_rows = 1
  /\ resp.f.i = 3
  /\ resp.f.skipped = 1
  /\ CompanyIds(resp.ret[1].companies) = {"1", "RC_Novak_Jan_1970-01-01"}

\* C20: a row whose extraction fails, or that has no identifier, adds one to
\* the skip counter and leaves the companies, relationships, persons and
\* seen identifiers as they were; the loop goes on with the next row.
C20_BadRowIsSkipped ==
  Passed =>
    LET f == resp.f
        b == resp.before[1]
        row == b.rows[b.i]
    IN  (ExtractionFails(row) \/ NoIdentifier(row)) =>
          /\ f.skipped = b.skipped + 1
          /\ SameAccumulated(f, b)
          /\ f.i = b.i + 1
          /\ f.rows = b.rows
          /\ f.max_rows = b.max_rows
          /\ resp.pc = "done" =>
               resp.ret[1] = parse_or_csv_result(b)

C20_Witness ==
  /\ Passed
  /\ resp.pc = "loop"
  /\ ExtractionFails(resp.before[1].rows[resp.before[1].i])
  /\ resp.f.companies /= <<>>
  /\ resp.f.relationships /= <<>>
  /\ resp.f.skipped = 1
  /\ parse_or_csv_more(resp.f)

\* C21: a row whose identifier is missing or blank is extracted to the
\* triple (None, no relationships, no persons), of the same three
\* components as the extraction of an accepted row.
C21_NoIdentifierYieldsTriple ==
  (resp.op = "parse_or_row" /\ NoIdentifier(resp.row)) =>
    resp.ret = Value(<<PyNone, <<>>, <<>>>>)

\* ids with every repeat after the first dropped.
RECURSIVE FirstSeen(_, _)
FirstSeen(ids, seen) ==
  IF ids = <<>> THEN <<>>
  ELSE IF Head(ids) \in seen THEN FirstSeen(Tail(ids), seen)
  ELSE <<Head(ids)>> \o FirstSeen(Tail(ids), seen \cup {Head(ids)})

\* The row at j yields a company whose identifier no earlier row yielded.
AcceptedRow(rows, j) ==
  /\ Extracts(rows[j])
  /\ \A h \in 1..(j - 1) :
       Extracts(rows[h]) => ExtractedCompany(rows[h]).id /= ExtractedCompany(rows[j]).id

\* The identifiers of the persons found in a row, as they were found.
PersonsOf(row) ==
  LET found == Extraction[row].val[3]
  IN  [i \in 1..Len(found) |-> found[i].key]

\* The persons found in the accepted rows among the first n, row after row.
RECURSIVE Discovered(_, _)
Discovered(rows, n) ==
  IF n = 0 THEN <<>>
  ELSE Discovered(rows, n - 1)
         \o (IF AcceptedRow(rows, n) THEN PersonsOf(rows[n]) ELSE <<>>)

\* C22: in the entity list of the output every company comes before every
\* person, no person identifier occurs twice, and the persons stand in the
\* order in which the rows read first found them.
C22_PersonsOnceAfterCompanies ==
  (resp.op = "parse_or_csv" /\ resp.pc = "done") =>
    LET f == resp.f
        out == resp.ret[1].companies
        n == Len(f.companies)
        persons == SubSeq(out, n + 1, Len(out))
    IN  /\ \A i \in 1..Len(out) : (out[i].type = "company") <=> (i <= n)
        /\ \A i \in 1..Len(out) : (out[i].type = "person") <=> (i > n)
        /\ \A a \in 1..Len(persons), b \in 1..Len(persons) :
             a /= b => persons[a].id /= persons[b].id
        /\ [i \in 1..Len(persons) |-> persons[i].id]
             = FirstSeen(Discovered(f.rows, f.i - 1), {})

\* A person found in the first row is found again in the second, after
\* another person.
C22_Witness ==
  /\ resp.op = "parse_or_csv"
  /\ resp.pc = "done"
  /\ resp.f.rows = <<RowAlfaAgain, RowBeta>>
  /\ resp.f.max_rows = 2
  /\ Discovered(resp.f.rows, 2)
       = <<"RC_Svoboda_Eva_1970-01-01", "RC_Novak_Jan_1970-01-01",
           "RC_Svoboda_Eva_1970-01-01">>
  /\ [i \in 1..4 |-> resp.ret[1].companies[i].id]
       = <<"1", "2", "RC_Svoboda_Eva_1970-01-01", "RC_Novak_Jan_1970-01-01">>

(***************************************************************************)
(* What the export's and the queries' claims speak of.                     *)
(***************************************************************************)
\* The entities at most d hops from a member of from.
RECURSIVE Within(_, _, _)
Within(g, from, d) ==
  IF d = 0 THEN from
  ELSE Within(g, from \cup {w \in DOMAIN g.node :
                              \E v \in from : IsRelationship(g, v, w)}, d - 1)

\* The relationships of g, each as the set of its one or two endpoints.
Relationships(g) ==
  {e \in SUBSET DOMAIN g.node :
     \E u \in e, v \in e : e = {u, v} /\ IsRelationship(g, u, v)}

\* C23: for nodes of interest P that are all in the graph and a depth
\* d >= 0, the export holds one node for every entity within d hops of a
\* member of P and no other, one edge for every relationship between two
\* of these nodes and no other; a node is flagged iff it is in P, an edge
\* iff both its endpoints are; every node carries the entity's name, kind,
\* country, insolvency and city.
C23_ExportIsNeighbourhood ==
  (/\ resp.op = "export_subgraph"
   /\ Range(resp.path) \subseteq DOMAIN graph.node
   /\ resp.depth >= 0) =>
    /\ resp.ret.kind = "value"
    /\ LET P == Range(resp.path)
           nodes == resp.ret.val.nodes
           edges == resp.ret.val.edges
           kept == Within(graph, P, resp.depth)
       IN  /\ {nodes[i].id : i \in 1..Len(nodes)} = kept
           /\ Len(nodes) = Cardinality(kept)
           /\ {{edges[i].source, edges[i].target} : i \in 1..Len(edges)}
                = {e \in Relationships(graph) : e \subseteq kept}
           /\ Len(edges) = Cardinality({e \in Relationships(graph) : e \subseteq kept})
           /\ resp.depth = 0 => kept = P
           /\ \A i \in 1..Len(nodes) :
                LET n == nodes[i]
                    attrs == graph.node[n.id]
                IN  /\ n.in_path <=> n.id \in P
                    /\ n.label = IF "name" \in DOMAIN attrs THEN attrs.name ELSE n.id
                    /\ n.type = IF "type" \in DOMAIN attrs THEN attrs.type ELSE "unknown"
                    /\ n.country = IF "country" \in DOMAIN attrs THEN attrs.country
                                   ELSE "CZ"
                    /\ n.insolvent = IF "insolvent" \in DOMAIN attrs
                                     THEN attrs.insolvent ELSE FALSE
                    /\ n.city = IF "city" \in DOMAIN attrs THEN attrs.city ELSE ""
           /\ \A i \in 1..Len(edges) :
                edges[i].in_path <=> (edges[i].source \in P /\ edges[i].target \in P)

\* From A on the chain A - B - C at depth 1: A and B with their edge, B and
\* the edge not flagged, C left out.
C23_Witness ==
  /\ resp.op = "export_subgraph"
  /\ resp.path = <<"A">>
  /\ resp.depth = 1
  /\ Relationships(graph) = {{"A", "B"}, {"B", "C"}}
  /\ resp.ret.kind = "value"
  /\ Len(resp.ret.val.nodes) = 2
  /\ Len(resp.ret.val.edges) = 1
  /\ ~resp.ret.val.edges[1].in_path
  /\ \E i \in 1..2 : resp.ret.val.nodes[i].id = "A" /\ resp.ret.val.nodes[i].in_path

\* The calls that only read the graph.
QueryOps ==
  {"find_shortest_path", "find_top_k_paths", "find_multi_point_path",
   "top_paths", "multi_path", "export_subgraph", "get_graph_stats"}

\* C25: a step that is a path query, a filtering request, an export or a
\* stats call leaves the graph (its entities, its relationships and all
\* their attributes) exactly as it was.
C25_QueriesAreReadOnly ==
  [][resp'.op \in QueryOps => graph' = graph]_vars

\* A filtering request has dropped the one path there is, on a graph with an
\* insolvent entity and an inactive relationship.
C25_Witness ==
  /\ resp.op = "top_paths"
  /\ resp.data.exclude_inactive
  /\ resp.body = NotFound(MsgNoMatch)
  /\ Relationships(graph) = {{"A", "B"}}
  /\ \E n \in DOMAIN graph.node : Insolvent(graph, n)

\* The officer member records of a row, read off the decoded literal: the
\* members of the statutory bodies that are marked as members.
RECURSIVE MembersOf(_, _)
MembersOf(items, i) ==
  IF i > Len(items) THEN <<>>
  ELSE LET item == items[i]
           podudaje == py_get(item, "podudaje", py_list(<<>>))
       IN  (IF /\ item.kind = "dict"
               /\ typ_kod(item) = py_str("STATUTARNI_ORGAN")
               /\ podudaje.kind = "list"
            THEN SelectSeq(podudaje.items,
                           LAMBDA m : /\ m.kind = "dict"
                                      /\ typ_kod(m) = py_str("STATUTARNI_ORGAN_CLEN"))
            ELSE <<>>)
           \o MembersOf(items, i + 1)

OfficerRecords(row) == MembersOf(udaje_of(row), 1)

\* A field of the person of an officer record, blanks at the ends dropped.
OfficerField(m, field) ==
  LET osoba == py_get(m, "osoba", py_dict(<<>>))
  IN  IF osoba.kind = "dict" THEN py_strip(py_get(osoba, field, py_str("")).str)
      ELSE ""

Surname(m) == OfficerField(m, "prijmeni")

\* The deletion date of the record is there and not empty.
Deleted(m) == py_truthy(py_get(m, "vymazDatum", PyNone))

\* The role label of the record: the text of funkce, or the name in a Map;
\* "" when there is none.
RoleLabel(m) ==
  LET funkce == py_get(m, "funkce", py_str(""))
  IN  IF funkce.kind = "str" THEN funkce.str
      ELSE IF funkce.kind = "dict" /\ py_get(funkce, "nazev", py_str("")).kind = "str"
      THEN py_get(funkce, "nazev", py_str("")).str
      ELSE ""

\* The relationship an officer record with a surname gives, its type
\* written by label.
OfficerTie(m, ico, label) ==
  [source |-> py_replace_spaces("RC_" \o Surname(m) \o "_" \o OfficerField(m, "jmeno")
                                  \o "_" \o OfficerField(m, "narozDatum")),
   target |-> ico,
   type   |-> IF RoleLabel(m) = "" THEN "jednatel" ELSE label,
   active |-> ~Deleted(m)]

\* The rows of officers only that were extracted, and what came out.
OfficersExtracted ==
  /\ resp.op = "parse_or_row"
  /\ resp.row \in OfficerRows
  /\ resp.ret.kind = "value"

OfficersNamed == SelectSeq(OfficerRecords(resp.row), LAMBDA m : Surname(m) /= "")

C26_DepthCounter ==
  resp.op = "parse_string" =>
    LET s == resp.s
        end == resp.ret.pos
    IN  /\ end <= Len(s)
        /\ end < Len(s) => LocalDepth(s, end) = 0
        /\ \A i \in 0..(end - 1) :
             /\ LocalDepth(s, i) >= 0
             /\ At(s, i) \in Closers => LocalDepth(s, i) > 0
        /\ \A i \in 0..(Len(s) - 1) :
             (At(s, i) \in Closers /\ LocalDepth(s, i) = 0
                /\ \A j \in 0..(i - 1) : LocalDepth(s, j + 1) >= 0) => end <= i
        /\ \A i \in 0..(Len(s) - 1) :
             (At(s, i) \in {",", ";"} /\ LocalDepth(s, i) > 0) => end /= i
        /\ resp.ret.val = py_str(py_strip(py_slice(s, 0, end)))

\* The run passes a ';' followed by a key inside braces, consumes the '}'
\* that matches the '{', and ends at the ']' after it.
C26_Witness ==
  /\ resp.op = "parse_string"
  /\ resp.s = "x{;a=1}]"
  /\ FollowedByKey(resp.s, 2)
  /\ resp.ret.pos = 7
  /\ resp.ret.val = py_str("x{;a=1}")

\* The registered-seat records of a row whose deletion date is absent or
\* empty, as positions in the decoded literal.
SeatsInForce(udaje) ==
  {i \in 1..Len(udaje) :
     /\ udaje[i].kind = "dict"
     /\ typ_kod(udaje[i]) = py_str("SIDLO")
     /\ ~py_truthy(py_get(udaje[i], "vymazDatum", PyNone))}

\* The date a is after the date b, both written year-month-day.
RECURSIVE DateAfter(_, _)
DateAfter(a, b) ==
  IF Len(a) = 0 \/ Len(b) = 0 THEN FALSE
  ELSE IF At(a, 0) = At(b, 0)
  THEN DateAfter(py_slice(a, 1, Len(a)), py_slice(b, 1, Len(b)))
  ELSE \E i \in 0..9, j \in 0..9 :
         /\ At("0123456789", i) = At(a, 0)
         /\ At("0123456789", j) = At(b, 0)
         /\ i > j

EntryDate(item) == py_get(item, "zapisDatum", py_str("")).str

\* The city a seat record supplies ("" if none).
SeatCity(item) ==
  LET adresa == py_get(item, "adresa", py_dict(<<>>))
  IN  IF adresa.kind = "dict" THEN py_get(adresa, "obec", py_str("")).str ELSE ""

\* C27: the city of an extracted company is the city of the seat record in
\* force that was entered last; when there is no seat in force, or that one
\* supplies no city, it is the flat city column; when that is empty too it is
\* the 'unknown' sentinel; it is never empty.
C27_CityOfMostRecentSeat ==
  (resp.op = "parse_or_row" /\ resp.row \in CityRows /\ resp.ret.kind = "value") =>
    LET udaje == udaje_of(resp.row)
        seats == SeatsInForce(udaje)
        latest == CHOOSE i \in seats :
                    \A j \in seats : ~DateAfter(EntryDate(udaje[j]), EntryDate(udaje[i]))
        flat == py_strip(py_get(resp.row, "sidlo_nazevObce", py_str("")).str)
        city == resp.ret.val[1].city.str
    IN  /\ city /= ""
        /\ city = IF seats /= {} /\ SeatCity(udaje[latest]) /= ""
                  THEN SeatCity(udaje[latest])
                  ELSE IF flat /= "" THEN flat
                  ELSE "nezname"

\* The identifier is one derived for a person.
IsPersonId(id) == Len(id) >= 3 /\ SubSeq(id, 1, 3) = "RC_"

\* C28: every relationship of the output comes from an accepted row and
\* points at that row's own company, which is in the entity list; a source
\* that is a derived person identifier is in the entity list as a person;
\* a source missing from the entity list is the identifier of an
\* organization that holds a share.
C28_EndpointsInOutput ==
  (resp.op = "parse_or_csv" /\ resp.pc = "done") =>
    LET f == resp.f
        entities == resp.ret[1].companies
        rels == resp.ret[1].relationships
        companies == {entities[i].id : i \in {j \in 1..Len(entities) :
                                               entities[j].type = "company"}}
        persons == {entities[i].id : i \in {j \in 1..Len(entities) :
                                             entities[j].type = "person"}}
    IN  \A i \in 1..Len(rels) :
          /\ rels[i].target \in companies
          /\ \E j \in 1..(f.i - 1) :
               /\ AcceptedRow(f.rows, j)
               /\ ExtractedCompany(f.rows[j]).id = rels[i].target
               /\ \E h \in 1..Len(Extraction[f.rows[j]].val[2]) :
                    Extraction[f.rows[j]].val[2][h] = rels[i]
          /\ IsPersonId(rels[i].source) => rels[i].source \in persons
          /\ rels[i].source \notin companies \cup persons =>
               (rels[i].type = "spolecnik" /\ ~IsPersonId(rels[i].source))

\* The row of company 2 alone: its two persons are in the entity list, the
\* organization 1 that holds a share in it is not.
C28_Witness ==
  /\ resp.op = "parse_or_csv"
  /\ resp.pc = "done"
  /\ resp.f.rows = <<RowBeta>>
  /\ resp.f.max_rows = 1
  /\ Len(resp.ret[1].companies) = 3
  /\ Len(resp.ret[1].relationships) = 3
  /\ \E i \in 1..3 : /\ resp.ret[1].relationships[i].source = "1"
                     /\ resp.ret[1].relationships[i].target = "2"

\* The passes the map-entry loop, the list-element loop and the text-run
\* loop can make on a text of n characters: every pass that goes on uses up
\* a character of its own, and every loop is left once.
StepBound(n) == 2 * n + 1

\* The positions the scan of s can stand at.
Positions(s) == 0..Len(s)

\* The calls of the decoder never move the position back, nor past the end.
NeverBack(s) ==
  \A pos \in Positions(s) :
    /\ skip_ws(s, pos) \in pos..Len(s)
    /\ parse_key(s, pos).pos \in pos..Len(s)
    /\ parse_string(s, pos, 1).pos \in pos..Len(s)
    /\ parse_value(s, pos, 1).pos \in pos..Len(s)

\* A pass of a loop entered at pos: it goes on further right, or it leaves
\* the loop without moving back.
Advances(it, pos) == IF it.again THEN it.pos > pos ELSE it.pos >= pos

\* C29: decoding terminates on every text: no call moves the scan position
\* back, every pass of the map-entry loop, of the list-element loop and of
\* the text-run loop either moves the position forward or leaves the loop,
\* and the number of passes is at most StepBound of the length of the text.
C29_DecodeTerminates ==
  resp.op = "parse_java_map" =>
    /\ NeverBack(resp.s)
    /\ \A pos \in 0..(Len(resp.s) - 1) :
         /\ Advances(parse_map_entry(resp.s, pos, <<>>, 1, 1), pos)
         /\ Advances(parse_list_item(resp.s, pos, <<>>, 1, 1), pos)
         /\ \A depth \in 0..MaxLen :
              parse_string_scan(resp.s, pos, depth) \in pos..Len(resp.s)
    /\ parse_value(resp.s, 0, 1).steps <= StepBound(Len(resp.s))

\* A list of two maps was decoded: the list loop and each map loop made two
\* passes, and the four Text runs nine.
C29_Witness ==
  /\ resp.op = "parse_java_map"
  /\ resp.s = "[{a=1;b=2}, {a=x y;b_1=}]"
  /\ resp.ret.kind = "list"
  /\ Len(resp.ret.items) = 2
  /\ parse_list_item(resp.s, 1, <<>>, 1, 1).again
  /\ parse_map_entry(resp.s, 2, <<>>, 2, 2).again
  /\ parse_value(resp.s, 0, 1).steps = 15

\* C30: k_shortest_paths(s, t, k) returns the empty sequence for every
\* k <= 0, and never more than max(k, 0) paths.
C30_NeverMoreThanK ==
  resp.op = "find_top_k_paths" =>
    /\ resp.ret.kind = "value"
    /\ (resp.k <= 0 => resp.ret.val = <<>>)
    /\ Len(resp.ret.val) <= py_max(resp.k, 0)

====
